---- MODULE Spec2Model ----
(***************************************************************************)
(* A model of the stock screeners of examples/: the job orchestrator of    *)
(* stock_screener_unified.py (start route, background workers, the global  *)
(* STATE registry, TASK_LOCKS and API_LOCK) and the technical screening    *)
(* chain screen_stock_tab1 / screen_stock.                                 *)
(*                                                                         *)
(* Python objects are modelled with their identity: STATE[tab] names a     *)
(* dict of the heap, the start route binds STATE[tab] to a NEW dict, and a *)
(* worker keeps the reference `state` it read at line 434/488.             *)
(* Every Python statement that writes shared state is one step, and so is  *)
(* the sleep that ends the body of the symbol loop; any other step that    *)
(* only touches locals is taken together with the statement before it. Of  *)
(* a job-state dict the model keeps status, progress, total, results,      *)
(* stats, message and mode; current_stock, data_source,                    *)
(* golden_only and market_macd are written but never read by the code      *)
(* modelled here and are left out.                                         *)
(*                                                                         *)
(* Besides the orchestrator (Spec, and SpecCross with both job classes at  *)
(* work) the module holds a specification of each part the orchestrator    *)
(* only sees the result of: the screening chain (SpecScreen), the          *)
(* fundamental chain of tab2 (SpecFund), the ranking                       *)
(* (SpecRank), calculate_macd (SpecMacd), the moving average (SpecSma),    *)
(* the weekly resampling (SpecResample), the weekly-data provider with its *)
(* health flag (SpecFetch), and start / run_task of stock_screener_web.py  *)
(* (SpecWeb). Each has variables of its own, which the others leave alone. *)
(***************************************************************************)
EXTENDS Integers, Sequences, FiniteSets, TLC

(* ------------------------------ bounds --------------------------------- *)
\* number of /start requests served (over both tabs)
MaxStarts == 2
\* largest symbol universe the universe provider returns
MaxStocks == 2
\* longest list of matched results handed to sorted()
MaxRanked == 4
\* longest close series handed to calculate_macd
MaxMacdBars == 2
\* longest close series, and largest window, handed to rolling(window).mean()
MaxSmaBars == 3
\* symbols one run fetches the weekly series of
MaxSymbols == 2

(* --------------------------- program constants ------------------------- *)
Tabs == {"tab1", "tab2"}

\* the registered mode names (the keys of TAB1_MODES and of TAB2_MODES)
ModeNames == {"strict", "default", "loose"}

\* mode names a request may carry: request.args.get('mode', 'default') is any string
RequestModes == {"default", "bogus"}

\* the status codes each screen function can return
ReturnCodes(tab) ==
    IF tab = "tab1"
    THEN {"no_data", "no_ma", "ma_filter", "dea_filter", "dea_range",
          "no_golden", "matched", "error"}
    ELSE {"no_fundamental", "pb_filter", "market_cap_filter", "beta_filter",
          "no_monthly_data", "matched", "error"}

\* FailedCodes with 'no_data' / 'no_fundamental' forgotten in the elif
FailedCodesWithoutNoData(tab) ==
    IF tab = "tab1"
    THEN {"error"}
    ELSE {"no_monthly_data", "error"}

\* the status codes run_task_tab1 / run_task_tab2 count as failed
FailedCodes(tab) ==
    IF tab = "tab1"
    THEN {"no_data", "error"}
    ELSE {"no_fundamental", "no_monthly_data", "error"}

Workers == 1..MaxStarts
\* dict 0 and dict 1 are the module-level STATE['tab1'] and STATE['tab2'];
\* the k-th start request allocates dict k+1
DictIds == 0..(MaxStarts + 1)

InitialDict(tab) == IF tab = "tab1" THEN 0 ELSE 1

Msg(text, n) == [text |-> text, n |-> n]

\* the dict literal of lines 75-86 and 836-849
FreshDict(mode) ==
    [status |-> "idle", progress |-> 0, total |-> 0, results |-> <<>>,
     stats |-> [success |-> 0, failed |-> 0, matched |-> 0],
     message |-> Msg("", 0), mode |-> mode]

VARIABLES
    heap,        \* DictIds -> dict: the job-state dicts, by identity
    STATE_,      \* Tabs -> DictIds: the dict the global STATE[tab] is bound to
    TASK_LOCKS,  \* Tabs -> BOOLEAN: locked?
    API_LOCK,    \* BOOLEAN: locked?
    nStarts,     \* start requests served so far
    resp,        \* the JSON answer of the last start request
    pc,          \* Workers -> the statement the worker thread is at
    wtab,        \* Workers -> the job class of the thread
    wmode,       \* Workers -> the mode argument of the thread
    state,       \* Workers -> DictIds: the local `state` of run_task_*
    stocks,      \* Workers -> the length of the local `stocks`
    idx,         \* Workers -> the loop index i
    ret,         \* Workers -> what screen_stock_* returned
    exc,         \* Workers -> the exception being handled
    stage,       \* Workers -> the provider function, and its attempt, screen_stock_* is at
    inp,         \* the arguments and the provider answers one screening call sees
    out,         \* what the two screen functions under study returned for inp
    rank_in,     \* a results list in discovery order
    rank_out,    \* what sorted() of line 470 and of line 530 made of rank_in
    macd_in,     \* the close column handed to calculate_macd
    macd_out,    \* the EMAs and the DIF, DEA and histogram columns it computed
    sma_in,      \* a close column, a window and the bar count of the frame
    sma_out,     \* the rolling mean and what the screen functions made of its last value
    daily,       \* the daily bars the fallback source returned
    weekly,      \* what resample("W-FRI").agg(...).dropna() made of them
    screener,    \* whose provider runs: get_weekly_data_tab1 (unified) or get_weekly_data (web)
    DATA_SOURCE_HEALTH,  \* the value of DATA_SOURCE_HEALTH["eastmoney_ok"]
    fpc,         \* FetchRuns -> where the run is in the provider
    fsym,        \* FetchRuns -> the symbols the run has fetched
    retry,       \* FetchRuns -> the loop variable of `for retry in range(2)`
    calls,       \* FetchRuns -> the sources called for the current symbol, in order
    fetched,     \* FetchRuns -> what the last fetch returned
    primary_raised, \* FetchRuns -> a call to the primary source has raised in this run
    WSTATE,      \* the dict the global STATE of stock_screener_web.py is bound to
    nWebStarts,  \* /start requests the web screener has served
    tpc,         \* WebThreads -> the statement of run_task the thread is at
    tstocks,     \* WebThreads -> the length of the local `stocks`
    tidx,        \* WebThreads -> the loop index i
    texc         \* WebThreads -> the exception being handled

\* the state of the job orchestrator
jobVars == <<heap, STATE_, TASK_LOCKS, API_LOCK, nStarts, resp, pc, wtab, wmode,
             state, stocks, idx, ret, exc, stage>>
\* the state of the other specifications: the pure functions, the provider and
\* the web screener
screenVars == <<inp, out>>
rankVars == <<rank_in, rank_out>>
macdVars == <<macd_in, macd_out>>
smaVars == <<sma_in, sma_out>>
resampleVars == <<daily, weekly>>
fetchVars == <<screener, DATA_SOURCE_HEALTH, fpc, fsym, retry, calls, fetched,
               primary_raised>>
webVars == <<WSTATE, nWebStarts, tpc, tstocks, tidx, texc>>
pureVars == <<screenVars, rankVars, macdVars, smaVars, resampleVars, fetchVars,
              webVars>>
vars == <<jobVars, pureVars>>

NoRet == "none"

\* no call of screen_stock_* is under way
NoStage == [fn |-> "none", attempt |-> 0]

JobInit ==
    /\ heap = [d \in DictIds |-> FreshDict("default")]
    /\ STATE_ = [t \in Tabs |-> InitialDict(t)]
    /\ TASK_LOCKS = [t \in Tabs |-> FALSE]
    /\ API_LOCK = FALSE
    /\ nStarts = 0
    /\ resp = "none"
    /\ pc = [w \in Workers |-> "unborn"]
    /\ wtab = [w \in Workers |-> "tab1"]
    /\ wmode = [w \in Workers |-> "default"]
    /\ state = [w \in Workers |-> 0]
    /\ stocks = [w \in Workers |-> 0]
    /\ idx = [w \in Workers |-> 0]
    /\ ret = [w \in Workers |-> NoRet]
    /\ exc = [w \in Workers |-> "none"]
    /\ stage = [w \in Workers |-> NoStage]

(* ================= the screening chain: screen_stock_tab1 ================ *)
(* Numbers are exact and scaled to integers: DEA, DIF and the histogram in   *)
(* hundredths, ma_min / ma_max in percent, pullback in tenths. A comparison  *)
(* x / y < c of the source, with y > 0, is the comparison x * 100 < c * y    *)
(* of the scaled values.                                                     *)

\* len(df) < 100 of line 171 (unified) and line 191 (web)
MinBars == 100

\* TAB1_MODES of stock_screener_unified.py
TAB1_MODES ==
    [strict  |-> [ma_min |-> 0, ma_max |-> 8, history_dea |-> 30, pullback |-> 3,
                  dea_min |-> 0, dea_max |-> 50],
     default |-> [ma_min |-> -5, ma_max |-> 10, history_dea |-> 10, pullback |-> 5,
                  dea_min |-> 0, dea_max |-> 100],
     loose   |-> [ma_min |-> -10, ma_max |-> 20, history_dea |-> 5, pullback |-> 7,
                  dea_min |-> -20, dea_max |-> 150]]

\* MODES of stock_screener_web.py
MODES ==
    [strict  |-> [ma_min |-> 0, ma_max |-> 8, history_dea |-> 30, pullback |-> 3,
                  dea_min |-> 0, dea_max |-> 50],
     default |-> [ma_min |-> -5, ma_max |-> 10, history_dea |-> 10, pullback |-> 5,
                  dea_min |-> 0, dea_max |-> 100],
     loose   |-> [ma_min |-> -10, ma_max |-> 20, history_dea |-> 5, pullback |-> 7,
                  dea_min |-> -20, dea_max |-> 150]]

Max(a, b) == IF a >= b THEN a ELSE b

\* df.tail(100)['DEA'].max(): the peak over the window, whose last bar is the
\* current one
max_dea_100w(i) == Max(i.peak_prev, i.dea)

\* ma_filter with the lower bound exclusive (<= for <)
ma_filter_exclusive_min(params, close, ma55) ==
    \/ (close - ma55) * 100 <= params.ma_min * ma55
    \/ (close - ma55) * 100 >= params.ma_max * ma55

\* lines 188-189: deviation < params['ma_min'] or deviation >= params['ma_max']
ma_filter(params, close, ma55) ==
    \/ (close - ma55) * 100 < params.ma_min * ma55
    \/ (close - ma55) * 100 >= params.ma_max * ma55

\* dea_filter with a DEA exactly at pullback * peak let through (> for >=)
dea_filter_exclusive_pullback(params, dea, peak) ==
    \/ peak <= params.history_dea
    \/ dea * 10 > params.pullback * peak

\* line 193: max_dea_100w <= history_dea or dea >= pullback * max_dea_100w
dea_filter(params, dea, peak) ==
    \/ peak <= params.history_dea
    \/ dea * 10 >= params.pullback * peak

\* line 196: dea <= params['dea_min'] or dea >= params['dea_max']
dea_range(params, dea) ==
    dea <= params.dea_min \/ dea >= params.dea_max

\* signal_label with the `macd < 0` test dropped
signal_label_any_rise(dif, dea, macd, prev_macd) ==
    IF dif > dea THEN "golden_cross"
    ELSE IF macd > prev_macd THEN "green_shrink" ELSE "pending_cross"

\* line 203: "金叉" if is_golden else ("绿柱缩短" if (macd > prev_macd and macd < 0)
\* else "待金叉")
signal_label(dif, dea, macd, prev_macd) ==
    IF dif > dea THEN "golden_cross"
    ELSE IF macd > prev_macd /\ macd < 0 THEN "green_shrink" ELSE "pending_cross"

Reject(code) == [status |-> code, signal |-> "none"]

\* round(a / b, 0) for b > 0: Python rounds to the nearest value and a tie to the
\* even one; the quotient is taken exactly
RoundHalfEven(a, b) ==
    LET q == a \div b
        r == a % b
    IN IF 2 * r < b THEN q
       ELSE IF 2 * r > b THEN q + 1
       ELSE IF q % 2 = 0 THEN q ELSE q + 1

\* lines 205-211 (web: 241-249): the numbers of the dict of a match. round(close, 2),
\* round(ma55, 2) and round(dea, 4), round(max_dea_100w, 4) leave hundredths as they
\* are; round(deviation * 100, 2) is in hundredths of a percent and
\* round((1 - dea / max_dea_100w) * 100, 1) in tenths of a percent
result_row(i) ==
    [close |-> i.close, ma55 |-> i.ma55,
     deviation |-> RoundHalfEven((i.close - i.ma55) * 10000, i.ma55),
     dea |-> i.dea, history_dea |-> max_dea_100w(i),
     pullback |-> RoundHalfEven((max_dea_100w(i) - i.dea) * 1000, max_dea_100w(i))]

\* web lines 237-239: the state of the histogram, a key of the web result only
macd_status(macd, prev_macd) ==
    IF macd > 0 /\ prev_macd <= 0 THEN "turned_red"
    ELSE IF macd > prev_macd
         THEN (IF macd > 0 THEN "red_growing" ELSE "green_shrinking")
         ELSE (IF macd > 0 THEN "red_shrinking" ELSE "green_growing")

\* screen_stock_tab1 with the zero-axis band tested before the peak and pullback
screen_stock_tab1_band_first(i) ==
    LET params == TAB1_MODES[i.mode]
        prev_macd == IF i.bars >= 2 THEN i.prev_macd ELSE 0
    IN IF i.bars < MinBars THEN Reject("no_data")
       ELSE IF i.ma_nan THEN Reject("no_ma")
       ELSE IF ma_filter(params, i.close, i.ma55) THEN Reject("ma_filter")
       ELSE IF dea_range(params, i.dea) THEN Reject("dea_range")
       ELSE IF dea_filter(params, i.dea, max_dea_100w(i)) THEN Reject("dea_filter")
       ELSE IF i.golden_only /\ ~(i.dif > i.dea) THEN Reject("no_golden")
       ELSE [status |-> "matched",
             signal |-> signal_label(i.dif, i.dea, i.macd, prev_macd),
             row |-> result_row(i)]

\* lines 165-213 of stock_screener_unified.py, for a registered mode and a frame the
\* indicator code does not raise on; bars = 0 stands for df is None
screen_stock_tab1(i) ==
    LET params == TAB1_MODES[i.mode]
        prev_macd == IF i.bars >= 2 THEN i.prev_macd ELSE 0
    IN IF i.bars < MinBars THEN Reject("no_data")
       ELSE IF i.ma_nan THEN Reject("no_ma")
       ELSE IF ma_filter(params, i.close, i.ma55) THEN Reject("ma_filter")
       ELSE IF dea_filter(params, i.dea, max_dea_100w(i)) THEN Reject("dea_filter")
       ELSE IF dea_range(params, i.dea) THEN Reject("dea_range")
       ELSE IF i.golden_only /\ ~(i.dif > i.dea) THEN Reject("no_golden")
       ELSE [status |-> "matched",
             signal |-> signal_label(i.dif, i.dea, i.macd, prev_macd),
             row |-> result_row(i)]

\* screen_stock with the upper bound of the deviation inclusive (> for >=)
screen_stock_far_inclusive(i) ==
    LET params == MODES[i.mode]
        prev_macd == IF i.bars >= 2 THEN i.prev_macd ELSE 0
        max_dea == max_dea_100w(i)
        is_golden == i.dif > i.dea
        is_green_shrink == i.macd > prev_macd /\ i.macd < 0
        signal == IF is_golden THEN "golden_cross"
                  ELSE IF is_green_shrink THEN "green_shrink" ELSE "pending_cross"
    IN IF i.bars < MinBars THEN Reject("no_data")
       ELSE IF i.ma_nan THEN Reject("no_ma")
       ELSE IF (i.close - i.ma55) * 100 < params.ma_min * i.ma55 THEN Reject("below_ma")
       ELSE IF (i.close - i.ma55) * 100 > params.ma_max * i.ma55 THEN Reject("too_far")
       ELSE IF max_dea <= params.history_dea THEN Reject("low_history")
       ELSE IF i.dea * 10 >= params.pullback * max_dea THEN Reject("no_pullback")
       ELSE IF i.dea <= params.dea_min \/ i.dea >= params.dea_max THEN Reject("dea_range")
       ELSE IF i.golden_only /\ ~is_golden THEN Reject("no_golden")
       ELSE [status |-> "matched", signal |-> signal,
             row |-> result_row(i) @@ [dif |-> i.dif,
                                       macd |-> macd_status(i.macd, prev_macd)]]

\* lines 184-251 of stock_screener_web.py
screen_stock(i) ==
    LET params == MODES[i.mode]
        prev_macd == IF i.bars >= 2 THEN i.prev_macd ELSE 0
        max_dea == max_dea_100w(i)
        is_golden == i.dif > i.dea
        is_green_shrink == i.macd > prev_macd /\ i.macd < 0
        signal == IF is_golden THEN "golden_cross"
                  ELSE IF is_green_shrink THEN "green_shrink" ELSE "pending_cross"
    IN IF i.bars < MinBars THEN Reject("no_data")
       ELSE IF i.ma_nan THEN Reject("no_ma")
       ELSE IF (i.close - i.ma55) * 100 < params.ma_min * i.ma55 THEN Reject("below_ma")
       ELSE IF (i.close - i.ma55) * 100 >= params.ma_max * i.ma55 THEN Reject("too_far")
       ELSE IF max_dea <= params.history_dea THEN Reject("low_history")
       ELSE IF i.dea * 10 >= params.pullback * max_dea THEN Reject("no_pullback")
       ELSE IF i.dea <= params.dea_min \/ i.dea >= params.dea_max THEN Reject("dea_range")
       ELSE IF i.golden_only /\ ~is_golden THEN Reject("no_golden")
       ELSE [status |-> "matched", signal |-> signal,
             row |-> result_row(i) @@ [dif |-> i.dif,
                                       macd |-> macd_status(i.macd, prev_macd)]]

\* The frames a screening call is tried on: every registered mode and flag, a
\* missing, a short and a long enough series, a defined and an undefined MA55 = 1.00,
\* and closes, DEA values and earlier peaks on, just beside and between the
\* thresholds of the three modes.
BarsGrid == {0, MinBars - 1, MinBars}
CloseGrid == {89, 90, 95, 100, 108, 110, 120}
DeaGrid == {-20, -19, 0, 1, 12, 14, 50, 100, 142, 150}
PeakGrid == {0, 5, 10, 20, 24, 30, 40, 203, 500}
GapGrid == {-1, 0, 1}
PrevMacdGrid == {-4, -2}

ScreenInputs ==
    { [mode |-> m, golden_only |-> g, bars |-> n, ma_nan |-> u, ma55 |-> 100,
       close |-> c, dea |-> d, dif |-> d + gap, macd |-> 2 * gap,
       prev_macd |-> pm, peak_prev |-> pk] :
        m \in DOMAIN TAB1_MODES, g \in BOOLEAN, n \in BarsGrid, u \in BOOLEAN,
        c \in CloseGrid, d \in DeaGrid, gap \in GapGrid, pm \in PrevMacdGrid,
        pk \in PeakGrid }

DefaultInput ==
    [mode |-> "default", golden_only |-> FALSE, bars |-> 0, ma_nan |-> FALSE,
     ma55 |-> 100, close |-> 100, dea |-> 0, dif |-> 0, macd |-> 0,
     prev_macd |-> -2, peak_prev |-> 5]

NoOut == [tab1 |-> Reject("none"), web |-> Reject("none")]

\* no screening call is being looked at
ScreenIdle == inp = DefaultInput /\ out = NoOut

\* not yet sorted
NoRank == [tab1 |-> <<>>, tab2 |-> <<>>,
           monthly |-> [raised |-> "none", rows |-> <<>>], done |-> FALSE]

\* no results list is being looked at
RankIdle == rank_in = <<>> /\ rank_out = NoRank

\* two runs of the symbol loop: enough for one to overlap or to follow the other
FetchRuns == {1, 2}

\* no run has called the provider: the module has just been loaded (line 89)
FetchIdle ==
    /\ screener = "unified"
    /\ DATA_SOURCE_HEALTH = "None"
    /\ fpc = [r \in FetchRuns |-> "idle"]
    /\ fsym = [r \in FetchRuns |-> 0]
    /\ retry = [r \in FetchRuns |-> 0]
    /\ calls = [r \in FetchRuns |-> <<>>]
    /\ fetched = [r \in FetchRuns |-> "none"]
    /\ primary_raised = [r \in FetchRuns |-> FALSE]

\* the threads of run_task: two /start requests, enough for a request to arrive
\* while the job of the one before is running
WebThreads == {1, 2}

\* the web screener has just been loaded (lines 53-64) and has served no request
WebIdle ==
    /\ WSTATE = FreshDict("default")
    /\ nWebStarts = 0
    /\ tpc = [t \in WebThreads |-> "unborn"]
    /\ tstocks = [t \in WebThreads |-> 0]
    /\ tidx = [t \in WebThreads |-> 0]
    /\ texc = [t \in WebThreads |-> "none"]

\* calculate_macd not yet applied
NoMacd == [ema_fast |-> <<>>, ema_slow |-> <<>>, DIF |-> <<>>, DEA |-> <<>>,
           MACD |-> <<>>, done |-> FALSE]

MacdIdle == macd_in = <<>> /\ macd_out = NoMacd

\* the rolling mean not yet applied
NoSma == [ma |-> <<>>, tab1 |-> Reject("none"), web |-> Reject("none"),
          done |-> FALSE]

SmaIdle == sma_in = [close |-> <<>>, period |-> 1, bars |-> 0] /\ sma_out = NoSma

\* the resampling not yet applied
NoWeekly == [bars |-> <<>>, done |-> FALSE]

ResampleIdle == daily = <<>> /\ weekly = NoWeekly

\* none of the pure functions but the screening chain is being looked at
IndicatorsIdle == MacdIdle /\ SmaIdle /\ ResampleIdle

Init ==
    /\ JobInit
    /\ WebIdle
    /\ FetchIdle
    /\ ScreenIdle
    /\ RankIdle
    /\ IndicatorsIdle

(* ------------------------------ helpers -------------------------------- *)
\* the dict a status query serialises: STATE.get(tab)
status(tab) == heap[STATE_[tab]]

\* a worker that holds a reference to dict d in its local `state`
BoundPcs == {"update", "market", "market_in", "market_msg", "universe",
             "universe_in", "total", "progress", "screen", "fetch_in",
             "classify", "inc_matched", "inc_success", "sleep", "sort",
             "completed", "message", "exc_status", "exc_message", "release"}

\* a dict no name refers to any more is freed (reference counting)
Collect(h, binding, h_pc, h_state) ==
    [d \in DictIds |->
        IF \/ \E t \in Tabs : binding[t] = d
           \/ \E w \in Workers : h_pc[w] \in BoundPcs /\ h_state[w] = d
        THEN h[d] ELSE FreshDict("default")]

\* Insert that puts a result before the results of equal key (an unstable sort)
RECURSIVE InsertBeforeEqual(_, _, _)
InsertBeforeEqual(r, sorted, tab) ==
    IF sorted = <<>> THEN <<r>>
    ELSE LET last == sorted[Len(sorted)]
             before == IF tab = "tab1" THEN last.key < r.key ELSE last.key > r.key
         IN IF before THEN Append(sorted, r)
            ELSE Append(InsertBeforeEqual(r, SubSeq(sorted, 1, Len(sorted) - 1), tab),
                        last)

\* sorted(results, key=...) of line 470 (ascending) and sorted(..., reverse=True)
\* of line 530 (descending); both stable
RECURSIVE Insert(_, _, _)
Insert(r, sorted, tab) ==
    IF sorted = <<>> THEN <<r>>
    ELSE LET last == sorted[Len(sorted)]
             before == IF tab = "tab1" THEN last.key <= r.key ELSE last.key >= r.key
         IN IF before THEN Append(sorted, r)
            ELSE Append(Insert(r, SubSeq(sorted, 1, Len(sorted) - 1), tab), last)

RECURSIVE Sorted(_, _)
Sorted(results, tab) ==
    IF results = <<>> THEN <<>>
    ELSE Insert(results[Len(results)],
                Sorted(SubSeq(results, 1, Len(results) - 1), tab), tab)

\* The ranking key screen_stock_* puts into the result of symbol sym ('偏离度%' in
\* tab1, '市值(亿)' in tab2). The universe is a fixture in which the keys have ties
\* and run against the sort order, so that sorting reorders the discovery order.
KeyOf(tab, sym) ==
    IF tab = "tab1" THEN (MaxStocks + 1 - sym) \div 2 ELSE sym \div 2

\* where the for statement of line 454/514 goes when i symbols have been iterated
LoopNext(i, n) == IF i < n THEN "progress" ELSE "sort"

\* The provider function a call of screen_stock_* begins with: get_weekly_data_tab1
\* (line 170), whose whole body is one `with API_LOCK`, and in tab2 the first of the
\* three attempts at the fundamentals (line 321)
FirstStage(tab) ==
    [fn |-> IF tab = "tab1" THEN "weekly" ELSE "fundamental", attempt |-> 1]

\* The `with API_LOCK` blocks screen_stock_tab2 can enter after the one of stage s:
\* the next attempt of the same loop (for retry in range(3) at line 321, range(2) at
\* lines 265 and 219), or the first attempt of the function that follows
\* (calculate_beta at line 382, get_monthly_data_tab2 at line 396)
NextStages(s) ==
    LET attempts == CASE s.fn = "fundamental" -> 3
                      [] s.fn = "beta" -> 2
                      [] s.fn = "monthly" -> 2
                      [] OTHER -> 0
        following == CASE s.fn = "fundamental" -> {"beta"}
                       [] s.fn = "beta" -> {"monthly"}
                       [] OTHER -> {}
    IN {[fn |-> s.fn, attempt |-> s.attempt + 1] : a \in {x \in {1} : s.attempt < attempts}}
       \cup {[fn |-> f, attempt |-> 1] : f \in following}

\* the status codes screen_stock_* can return when it is at stage s; an exception
\* (status 'error') can come from any of them
CodesAt(tab, s) ==
    IF tab = "tab1" THEN ReturnCodes(tab)
    ELSE CASE s.fn = "fundamental" ->
                {"pb_filter", "market_cap_filter", "error"}
                    \cup {c \in {"no_fundamental"} : s.attempt = 3}
           [] s.fn = "beta" -> {"beta_filter", "error"}
           [] s.fn = "monthly" -> {"no_monthly_data", "matched", "error"}
           [] OTHER -> {}

(* ------------------------- the /start/<tab> route ---------------------- *)
\* lines 829-852: bind STATE[tab] to a new idle dict, start the thread, answer ok
start(tab, mode) ==
    /\ nStarts < MaxStarts
    /\ LET w == nStarts + 1
           d == nStarts + 2
           binding == [STATE_ EXCEPT ![tab] = d]
       IN /\ STATE_' = binding
          /\ heap' = Collect([heap EXCEPT ![d] = FreshDict(mode)], binding, pc, state)
          /\ pc' = [pc EXCEPT ![w] = "acquire"]
          /\ wtab' = [wtab EXCEPT ![w] = tab]
          /\ wmode' = [wmode EXCEPT ![w] = mode]
    /\ nStarts' = nStarts + 1
    /\ resp' = "ok"
    /\ UNCHANGED <<TASK_LOCKS, API_LOCK, state, stocks, idx, ret, exc, stage, pureVars>>

(* --------------------- run_task_tab1 / run_task_tab2 ------------------- *)
\* Acquire with one lock for both job classes: busy when either class is running
AcquireAnyClass(w) ==
    /\ pc[w] = "acquire"
    /\ IF \E t \in Tabs : TASK_LOCKS[t]
       THEN /\ pc' = [pc EXCEPT ![w] = "rej_status"]
            /\ UNCHANGED TASK_LOCKS
       ELSE /\ TASK_LOCKS' = [TASK_LOCKS EXCEPT ![wtab[w]] = TRUE]
            /\ pc' = [pc EXCEPT ![w] = "bind"]
    /\ UNCHANGED <<heap, STATE_, API_LOCK, nStarts, resp, wtab, wmode, state,
                   stocks, idx, ret, exc, stage, pureVars>>

\* Acquire with the result of acquire() ignored: the thread always goes on
AcquireUnchecked(w) ==
    /\ pc[w] = "acquire"
    /\ TASK_LOCKS' = [TASK_LOCKS EXCEPT ![wtab[w]] = TRUE]
    /\ pc' = [pc EXCEPT ![w] = "bind"]
    /\ UNCHANGED <<heap, STATE_, API_LOCK, nStarts, resp, wtab, wmode, state,
                   stocks, idx, ret, exc, stage, pureVars>>

\* line 428/482: TASK_LOCKS[tab].acquire(blocking=False)
Acquire(w) ==
    /\ pc[w] = "acquire"
    /\ IF TASK_LOCKS[wtab[w]]
       THEN /\ pc' = [pc EXCEPT ![w] = "rej_status"]
            /\ UNCHANGED TASK_LOCKS
       ELSE /\ TASK_LOCKS' = [TASK_LOCKS EXCEPT ![wtab[w]] = TRUE]
            /\ pc' = [pc EXCEPT ![w] = "bind"]
    /\ UNCHANGED <<heap, STATE_, API_LOCK, nStarts, resp, wtab, wmode, state,
                   stocks, idx, ret, exc, stage, pureVars>>

\* line 429/483: STATE[tab]['status'] = 'error'
RejectStatus(w) ==
    /\ pc[w] = "rej_status"
    /\ heap' = [heap EXCEPT ![STATE_[wtab[w]]].status = "error"]
    /\ pc' = [pc EXCEPT ![w] = "rej_message"]
    /\ UNCHANGED <<STATE_, TASK_LOCKS, API_LOCK, nStarts, resp, wtab, wmode,
                   state, stocks, idx, ret, exc, stage, pureVars>>

\* lines 430-431/484-485: STATE[tab]['message'] = '...已在运行中...'; return
RejectMessage(w) ==
    /\ pc[w] = "rej_message"
    /\ heap' = [heap EXCEPT ![STATE_[wtab[w]]].message = Msg("busy", 0)]
    /\ pc' = [pc EXCEPT ![w] = "rejected"]
    /\ wtab' = [wtab EXCEPT ![w] = "tab1"]
    /\ wmode' = [wmode EXCEPT ![w] = "default"]
    /\ UNCHANGED <<STATE_, TASK_LOCKS, API_LOCK, nStarts, resp, state, stocks,
                   idx, ret, exc, stage, pureVars>>

\* line 434/488: state = STATE[tab]
Bind(w) ==
    /\ pc[w] = "bind"
    /\ state' = [state EXCEPT ![w] = STATE_[wtab[w]]]
    /\ pc' = [pc EXCEPT ![w] = "update"]
    /\ UNCHANGED <<heap, STATE_, TASK_LOCKS, API_LOCK, nStarts, resp, wtab,
                   wmode, stocks, idx, ret, exc, stage, pureVars>>

\* lines 435-439/489-493: state.update({...})
Update(w) ==
    /\ pc[w] = "update"
    /\ heap' = [heap EXCEPT ![state[w]] =
                   [@ EXCEPT !.status = "running", !.progress = 0,
                             !.results = <<>>,
                             !.stats = [success |-> 0, failed |-> 0, matched |-> 0],
                             !.message = Msg("loading", 0),
                             !.mode = wmode[w]]]
    /\ pc' = [pc EXCEPT ![w] = IF wtab[w] = "tab2" THEN "market" ELSE "universe"]
    /\ UNCHANGED <<STATE_, TASK_LOCKS, API_LOCK, nStarts, resp, wtab, wmode,
                   state, stocks, idx, ret, exc, stage, pureVars>>

\* line 495 -> 242: get_market_macd_signal enters `with API_LOCK`
MarketAcquire(w) ==
    /\ pc[w] = "market"
    /\ ~API_LOCK
    /\ API_LOCK' = TRUE
    /\ pc' = [pc EXCEPT ![w] = "market_in"]
    /\ UNCHANGED <<heap, STATE_, TASK_LOCKS, nStarts, resp, wtab, wmode, state,
                   stocks, idx, ret, exc, stage, pureVars>>

\* lines 243-260: the index call returns or raises (caught: return 0); the lock is left
MarketReturn(w) ==
    /\ pc[w] = "market_in"
    /\ API_LOCK' = FALSE
    /\ pc' = [pc EXCEPT ![w] = "market_msg"]
    /\ UNCHANGED <<heap, STATE_, TASK_LOCKS, nStarts, resp, wtab, wmode, state,
                   stocks, idx, ret, exc, stage, pureVars>>

\* lines 496-499: state['message'] = the market hint
MarketMessage(w) ==
    /\ pc[w] = "market_msg"
    /\ heap' = [heap EXCEPT ![state[w]].message = Msg("market", 0)]
    /\ pc' = [pc EXCEPT ![w] = "universe"]
    /\ UNCHANGED <<STATE_, TASK_LOCKS, API_LOCK, nStarts, resp, wtab, wmode,
                   state, stocks, idx, ret, exc, stage, pureVars>>

\* UniverseAcquire with the universe call made outside API_LOCK
UniverseAcquireUnlocked(w) ==
    /\ pc[w] = "universe"
    /\ API_LOCK' = TRUE
    /\ pc' = [pc EXCEPT ![w] = "universe_in"]
    /\ UNCHANGED <<heap, STATE_, TASK_LOCKS, nStarts, resp, wtab, wmode, state,
                   stocks, idx, ret, exc, stage, pureVars>>

\* line 442/502: with API_LOCK:
UniverseAcquire(w) ==
    /\ pc[w] = "universe"
    /\ ~API_LOCK
    /\ API_LOCK' = TRUE
    /\ pc' = [pc EXCEPT ![w] = "universe_in"]
    /\ UNCHANGED <<heap, STATE_, TASK_LOCKS, nStarts, resp, wtab, wmode, state,
                   stocks, idx, ret, exc, stage, pureVars>>

\* UniverseRaise with API_LOCK.acquire() / release() around the call instead of a
\* with statement: the exception leaves the lock taken
UniverseRaiseHoldingLock(w) ==
    /\ pc[w] = "universe_in"
    /\ exc' = [exc EXCEPT ![w] = "universe"]
    /\ pc' = [pc EXCEPT ![w] = "exc_status"]
    /\ UNCHANGED <<heap, STATE_, TASK_LOCKS, API_LOCK, nStarts, resp, wtab, wmode,
                   state, stocks, idx, ret, stage, pureVars>>

\* lines 443-449/503-509: ak.stock_info_a_code_name() returns; filter and sample
UniverseReturn(w, n) ==
    /\ pc[w] = "universe_in"
    /\ API_LOCK' = FALSE
    /\ stocks' = [stocks EXCEPT ![w] = n]
    /\ pc' = [pc EXCEPT ![w] = "total"]
    /\ UNCHANGED <<heap, STATE_, TASK_LOCKS, nStarts, resp, wtab, wmode, state,
                   idx, ret, exc, stage, pureVars>>

\* line 443/503 raises: the with statement leaves API_LOCK, control goes to line 473/533
UniverseRaise(w) ==
    /\ pc[w] = "universe_in"
    /\ API_LOCK' = FALSE
    /\ exc' = [exc EXCEPT ![w] = "universe"]
    /\ pc' = [pc EXCEPT ![w] = "exc_status"]
    /\ UNCHANGED <<heap, STATE_, TASK_LOCKS, nStarts, resp, wtab, wmode, state,
                   stocks, idx, ret, stage, pureVars>>

\* line 451/511: state['total'] = len(stocks); the loop starts at i = 0
SetTotal(w) ==
    /\ pc[w] = "total"
    /\ heap' = [heap EXCEPT ![state[w]].total = stocks[w]]
    /\ idx' = [idx EXCEPT ![w] = 0]
    /\ pc' = [pc EXCEPT ![w] = LoopNext(0, stocks[w])]
    /\ UNCHANGED <<STATE_, TASK_LOCKS, API_LOCK, nStarts, resp, wtab, wmode,
                   state, stocks, ret, exc, stage, pureVars>>

\* lines 455-456/515-516: state['progress'] = i + 1; line 458/518 calls
\* screen_stock_*
Progress(w) ==
    /\ pc[w] = "progress"
    /\ heap' = [heap EXCEPT ![state[w]].progress = idx[w] + 1]
    /\ stage' = [stage EXCEPT ![w] = FirstStage(wtab[w])]
    /\ pc' = [pc EXCEPT ![w] = "screen"]
    /\ UNCHANGED <<STATE_, TASK_LOCKS, API_LOCK, nStarts, resp, wtab, wmode,
                   state, stocks, idx, ret, exc, pureVars>>

\* line 166/313: params = TABn_MODES[mode] raises KeyError, outside the try of
\* screen_stock_*: control goes to line 473/533
ScreenKeyError(w) ==
    /\ pc[w] = "screen"
    /\ wmode[w] \notin ModeNames
    /\ exc' = [exc EXCEPT ![w] = "KeyError"]
    /\ stage' = [stage EXCEPT ![w] = NoStage]
    /\ pc' = [pc EXCEPT ![w] = "exc_status"]
    /\ UNCHANGED <<heap, STATE_, TASK_LOCKS, API_LOCK, nStarts, resp, wtab,
                   wmode, state, stocks, idx, ret, pureVars>>

\* the mode is registered; line 108 (tab1), lines 323, 266, 220 (tab2): a provider
\* call enters `with API_LOCK`
FetchAcquire(w) ==
    /\ pc[w] = "screen"
    /\ wmode[w] \in ModeNames
    /\ ~API_LOCK
    /\ API_LOCK' = TRUE
    /\ pc' = [pc EXCEPT ![w] = "fetch_in"]
    /\ UNCHANGED <<heap, STATE_, TASK_LOCKS, nStarts, resp, wtab, wmode, state,
                   stocks, idx, ret, exc, stage, pureVars>>

\* tab2 only: the lock is left and screen_stock_tab2 goes on to a further provider
\* call (a retry, calculate_beta, get_monthly_data_tab2)
FetchAgain(w) ==
    /\ pc[w] = "fetch_in"
    /\ wtab[w] = "tab2"
    /\ \E s \in NextStages(stage[w]) : stage' = [stage EXCEPT ![w] = s]
    /\ API_LOCK' = FALSE
    /\ pc' = [pc EXCEPT ![w] = "screen"]
    /\ UNCHANGED <<heap, STATE_, TASK_LOCKS, nStarts, resp, wtab, wmode, state,
                   stocks, idx, ret, exc, pureVars>>

\* screen_stock_* leaves the lock and returns (result, status); every exception
\* inside its try returns (None, 'error')
ScreenReturn(w, code) ==
    /\ pc[w] = "fetch_in"
    /\ code \in CodesAt(wtab[w], stage[w])
    /\ API_LOCK' = FALSE
    /\ ret' = [ret EXCEPT ![w] = code]
    /\ stage' = [stage EXCEPT ![w] = NoStage]
    /\ pc' = [pc EXCEPT ![w] = "classify"]
    /\ UNCHANGED <<heap, STATE_, TASK_LOCKS, nStarts, resp, wtab, wmode, state,
                   stocks, idx, exc, pureVars>>

\* Classify with a `continue` in the elif: a symbol counted as failed goes on to
\* the next symbol at once, past the sleep that ends the loop body
ClassifyFailedContinue(w) ==
    /\ pc[w] = "classify"
    /\ IF ret[w] = "matched"
       THEN /\ heap' = [heap EXCEPT ![state[w]].results =
                           Append(@, [sym |-> idx[w] + 1,
                                      key |-> KeyOf(wtab[w], idx[w] + 1)])]
            /\ pc' = [pc EXCEPT ![w] = "inc_matched"]
            /\ UNCHANGED idx
       ELSE IF ret[w] \in FailedCodes(wtab[w])
       THEN /\ heap' = [heap EXCEPT ![state[w]].stats.failed = @ + 1]
            /\ idx' = [idx EXCEPT ![w] = @ + 1]
            /\ pc' = [pc EXCEPT ![w] = LoopNext(idx[w] + 1, stocks[w])]
       ELSE /\ heap' = [heap EXCEPT ![state[w]].stats.success = @ + 1]
            /\ pc' = [pc EXCEPT ![w] = "sleep"]
            /\ UNCHANGED idx
    /\ ret' = [ret EXCEPT ![w] = NoRet]
    /\ UNCHANGED <<STATE_, TASK_LOCKS, API_LOCK, nStarts, resp, wtab, wmode,
                   state, stocks, exc, stage, pureVars>>

\* lines 459-466/519-526: if result: append | elif status in [...]: failed += 1
\* | else: success += 1
Classify(w) ==
    /\ pc[w] = "classify"
    /\ IF ret[w] = "matched"
       THEN /\ heap' = [heap EXCEPT ![state[w]].results =
                           Append(@, [sym |-> idx[w] + 1,
                                      key |-> KeyOf(wtab[w], idx[w] + 1)])]
            /\ pc' = [pc EXCEPT ![w] = "inc_matched"]
       ELSE /\ IF ret[w] \in FailedCodes(wtab[w])
               THEN heap' = [heap EXCEPT ![state[w]].stats.failed = @ + 1]
               ELSE heap' = [heap EXCEPT ![state[w]].stats.success = @ + 1]
            /\ pc' = [pc EXCEPT ![w] = "sleep"]
    /\ ret' = [ret EXCEPT ![w] = NoRet]
    /\ UNCHANGED <<STATE_, TASK_LOCKS, API_LOCK, nStarts, resp, wtab, wmode,
                   state, stocks, idx, exc, stage, pureVars>>

\* line 461/521: state['stats']['matched'] += 1
IncMatched(w) ==
    /\ pc[w] = "inc_matched"
    /\ heap' = [heap EXCEPT ![state[w]].stats.matched = @ + 1]
    /\ pc' = [pc EXCEPT ![w] = "inc_success"]
    /\ UNCHANGED <<STATE_, TASK_LOCKS, API_LOCK, nStarts, resp, wtab, wmode,
                   state, stocks, idx, ret, exc, stage, pureVars>>

\* IncSuccess with the increment of line 462/522 left out
IncSuccessSkipped(w) ==
    /\ pc[w] = "inc_success"
    /\ pc' = [pc EXCEPT ![w] = "sleep"]
    /\ UNCHANGED <<heap, STATE_, TASK_LOCKS, API_LOCK, nStarts, resp, wtab, wmode,
                   state, stocks, idx, ret, exc, stage, pureVars>>

\* line 462/522: state['stats']['success'] += 1
IncSuccess(w) ==
    /\ pc[w] = "inc_success"
    /\ heap' = [heap EXCEPT ![state[w]].stats.success = @ + 1]
    /\ pc' = [pc EXCEPT ![w] = "sleep"]
    /\ UNCHANGED <<STATE_, TASK_LOCKS, API_LOCK, nStarts, resp, wtab, wmode,
                   state, stocks, idx, ret, exc, stage, pureVars>>

\* line 468/528: time.sleep(0.1) / time.sleep(0.15), the last statement of the loop
\* body whatever branch was taken; then the for statement takes the next symbol
Sleep(w) ==
    /\ pc[w] = "sleep"
    /\ idx' = [idx EXCEPT ![w] = @ + 1]
    /\ pc' = [pc EXCEPT ![w] = LoopNext(idx[w] + 1, stocks[w])]
    /\ UNCHANGED <<heap, STATE_, TASK_LOCKS, API_LOCK, nStarts, resp, wtab, wmode,
                   state, stocks, ret, exc, stage, pureVars>>

\* line 470/530: state['results'] = sorted(state['results'], key=...)
Sort(w) ==
    /\ pc[w] = "sort"
    /\ heap' = [heap EXCEPT ![state[w]].results = Sorted(@, wtab[w])]
    /\ pc' = [pc EXCEPT ![w] = "completed"]
    /\ UNCHANGED <<STATE_, TASK_LOCKS, API_LOCK, nStarts, resp, wtab, wmode,
                   state, stocks, idx, ret, exc, stage, pureVars>>

\* line 471/531: state['status'] = 'completed'
Completed(w) ==
    /\ pc[w] = "completed"
    /\ heap' = [heap EXCEPT ![state[w]].status = "completed"]
    /\ pc' = [pc EXCEPT ![w] = "message"]
    /\ UNCHANGED <<STATE_, TASK_LOCKS, API_LOCK, nStarts, resp, wtab, wmode,
                   state, stocks, idx, ret, exc, stage, pureVars>>

\* line 472/532: state['message'] = f'完成! 找到 {len(state["results"])} 只股票'
DoneMessage(w) ==
    /\ pc[w] = "message"
    /\ heap' = [heap EXCEPT ![state[w]].message = Msg("done", Len(heap[state[w]].results))]
    /\ pc' = [pc EXCEPT ![w] = "release"]
    /\ UNCHANGED <<STATE_, TASK_LOCKS, API_LOCK, nStarts, resp, wtab, wmode,
                   state, stocks, idx, ret, exc, stage, pureVars>>

\* line 474/534: STATE[tab]['status'] = 'error'
ExceptStatus(w) ==
    /\ pc[w] = "exc_status"
    /\ heap' = [heap EXCEPT ![STATE_[wtab[w]]].status = "error"]
    /\ pc' = [pc EXCEPT ![w] = "exc_message"]
    /\ UNCHANGED <<STATE_, TASK_LOCKS, API_LOCK, nStarts, resp, wtab, wmode,
                   state, stocks, idx, ret, exc, stage, pureVars>>

\* line 475/535: STATE[tab]['message'] = str(e)
ExceptMessage(w) ==
    /\ pc[w] = "exc_message"
    /\ heap' = [heap EXCEPT ![STATE_[wtab[w]]].message = Msg(exc[w], 0)]
    /\ pc' = [pc EXCEPT ![w] = "release"]
    /\ UNCHANGED <<STATE_, TASK_LOCKS, API_LOCK, nStarts, resp, wtab, wmode,
                   state, stocks, idx, ret, exc, stage, pureVars>>

\* Release with the release at the end of the try block instead of in a finally:
\* a thread that comes from the except block ends without releasing the lock
ReleaseOnSuccessOnly(w) ==
    /\ pc[w] = "release"
    /\ TASK_LOCKS' = IF exc[w] = "none"
                     THEN [TASK_LOCKS EXCEPT ![wtab[w]] = FALSE]
                     ELSE TASK_LOCKS
    /\ pc' = [pc EXCEPT ![w] = "done"]
    /\ heap' = Collect(heap, STATE_, pc', state)
    /\ wtab' = [wtab EXCEPT ![w] = "tab1"]
    /\ wmode' = [wmode EXCEPT ![w] = "default"]
    /\ state' = [state EXCEPT ![w] = 0]
    /\ stocks' = [stocks EXCEPT ![w] = 0]
    /\ idx' = [idx EXCEPT ![w] = 0]
    /\ exc' = [exc EXCEPT ![w] = "none"]
    /\ UNCHANGED <<STATE_, API_LOCK, nStarts, resp, ret, stage, pureVars>>

\* lines 476-477/536-537: finally: TASK_LOCKS[tab].release(); the thread ends and
\* its locals die
Release(w) ==
    /\ pc[w] = "release"
    /\ TASK_LOCKS' = [TASK_LOCKS EXCEPT ![wtab[w]] = FALSE]
    /\ pc' = [pc EXCEPT ![w] = "done"]
    /\ heap' = Collect(heap, STATE_, pc', state)
    /\ wtab' = [wtab EXCEPT ![w] = "tab1"]
    /\ wmode' = [wmode EXCEPT ![w] = "default"]
    /\ state' = [state EXCEPT ![w] = 0]
    /\ stocks' = [stocks EXCEPT ![w] = 0]
    /\ idx' = [idx EXCEPT ![w] = 0]
    /\ exc' = [exc EXCEPT ![w] = "none"]
    /\ UNCHANGED <<STATE_, API_LOCK, nStarts, resp, ret, stage, pureVars>>

\* A bound on the requests explored: the start requests of one behaviour all
\* address the same job class (either one); the other class stays idle.
SameClass(tab) == \A t \in Tabs : STATE_[t] # InitialDict(t) => t = tab

Next ==
    \/ \E tab \in Tabs, mode \in RequestModes : SameClass(tab) /\ start(tab, mode)
    \/ \E w \in Workers :
        \/ Acquire(w)
        \/ RejectStatus(w)
        \/ RejectMessage(w)
        \/ Bind(w)
        \/ Update(w)
        \/ MarketAcquire(w)
        \/ MarketReturn(w)
        \/ MarketMessage(w)
        \/ UniverseAcquire(w)
        \/ \E n \in 0..MaxStocks : UniverseReturn(w, n)
        \/ UniverseRaise(w)
        \/ SetTotal(w)
        \/ Progress(w)
        \/ ScreenKeyError(w)
        \/ FetchAcquire(w)
        \/ FetchAgain(w)
        \/ \E code \in ReturnCodes(wtab[w]) : ScreenReturn(w, code)
        \/ Classify(w)
        \/ IncMatched(w)
        \/ IncSuccess(w)
        \/ Sleep(w)
        \/ Sort(w)
        \/ Completed(w)
        \/ DoneMessage(w)
        \/ ExceptStatus(w)
        \/ ExceptMessage(w)
        \/ Release(w)

Spec == Init /\ [][Next]_vars

(* ------------- both job classes at once: one request per class ---------- *)
\* no start request has addressed the class yet
FirstStart(tab) == STATE_[tab] = InitialDict(tab)

\* the outcomes of a screening call the two-class exploration distinguishes
CrossCodes == {"matched", "error"}

\* One /start/tab1 and one /start/tab2 request with a registered mode, in either
\* order, and the two workers interleaved freely. No worker is turned away and no
\* mode lookup fails, so the rejection path and the KeyError are not part of it.
\* the steps of the thread of worker w
CrossWorker(w) ==
    \/ Acquire(w)
    \/ Bind(w)
    \/ Update(w)
    \/ MarketAcquire(w)
    \/ MarketReturn(w)
    \/ MarketMessage(w)
    \/ UniverseAcquire(w)
    \/ \E n \in 0..MaxStocks : UniverseReturn(w, n)
    \/ UniverseRaise(w)
    \/ SetTotal(w)
    \/ Progress(w)
    \/ FetchAcquire(w)
    \/ FetchAgain(w)
    \/ \E code \in CrossCodes : ScreenReturn(w, code)
    \/ Classify(w)
    \/ IncMatched(w)
    \/ IncSuccess(w)
    \/ Sleep(w)
    \/ Sort(w)
    \/ Completed(w)
    \/ DoneMessage(w)
    \/ ExceptStatus(w)
    \/ ExceptMessage(w)
    \/ Release(w)

NextCross ==
    \/ \E tab \in Tabs : FirstStart(tab) /\ start(tab, "default")
    \/ \E w \in Workers : CrossWorker(w)

SpecCross == Init /\ [][NextCross]_vars

\* The scheduling the claims about progress rest on: a thread that can take its
\* next step is eventually run, and a provider call that is in flight eventually
\* returns or raises (both are steps of the thread). Nothing obliges a client to
\* send a start request.
SpecCrossFair ==
    Init /\ [][NextCross]_vars /\ \A w \in Workers : WF_vars(CrossWorker(w))

(* ------------- the specification of the screening functions -------------- *)
InitScreen ==
    /\ JobInit
    /\ WebIdle
    /\ FetchIdle
    /\ inp \in ScreenInputs
    /\ out = NoOut
    /\ RankIdle
    /\ IndicatorsIdle

\* one call of screen_stock_tab1 and of screen_stock on the same frame
Screen ==
    /\ out = NoOut
    /\ out' = [tab1 |-> screen_stock_tab1(inp), web |-> screen_stock(inp)]
    /\ UNCHANGED <<inp, jobVars, rankVars, macdVars, smaVars, resampleVars,
                   fetchVars, webVars>>

NextScreen == Screen

SpecScreen == InitScreen /\ [][NextScreen]_vars

(* ============ the fundamental chain: screen_stock_tab2 =================== *)
(* Numbers are exact and scaled to integers: price-to-book and beta in        *)
(* hundredths, the market capitalisation in units of 1e8. What the providers   *)
(* answered is part of the input: the three attempts at the fundamentals       *)
(* ("ok", "empty" or "raise"), the price-to-book (or None) and the             *)
(* capitalisation the first good answer carried, what calculate_beta returned  *)
(* (a number or None), the length of the monthly frame (0 for None) and the    *)
(* DIF and DEA of its last bar.                                                *)

\* TAB2_MODES of stock_screener_unified.py; roa_min is never read
TAB2_MODES ==
    [strict  |-> [pb_max |-> 80, pb_min |-> 10, market_cap_min |-> 800, beta_max |-> 60],
     default |-> [pb_max |-> 100, pb_min |-> 0, market_cap_min |-> 500, beta_max |-> 70],
     loose   |-> [pb_max |-> 150, pb_min |-> 0, market_cap_min |-> 300, beta_max |-> 80]]

\* MODES of stock_screener_tab2_fundamental.py; roa_min, in tenths of a percent, is
\* never read
FUNDAMENTAL_MODES ==
    [strict  |-> [pb_max |-> 80, pb_min |-> 10, market_cap_min |-> 800, roa_min |-> 200,
                  beta_max |-> 60],
     default |-> [pb_max |-> 100, pb_min |-> 0, market_cap_min |-> 500, roa_min |-> 150,
                  beta_max |-> 70],
     loose   |-> [pb_max |-> 150, pb_min |-> 0, market_cap_min |-> 300, roa_min |-> 100,
                  beta_max |-> 80]]

\* standalone line 220: roa = 0.16, and line 229: 'ROA%': round(roa * 100, 1), in
\* tenths of a percent
roa == 160

\* len(df) < 50 of line 398 (standalone: line 202)
MinMonths == 50

\* line 409 (standalone: 214-215): "金叉" if dif > dea else "待金叉"
monthly_signal(dif, dea) == IF dif > dea THEN "golden_cross" ELSE "pending_cross"

\* lines 321-364: for retry in range(3): an empty answer or an exception goes to the
\* next attempt, and after the third to return None, 'no_fundamental'
no_fundamental_after_retry(attempts) == \A k \in 1..3 : attempts[k] # "ok"

\* screen_stock_tab2 with the size floor tested before the price-to-book band
screen_stock_tab2_size_first(i) ==
    LET params == TAB2_MODES[i.mode]
    IN IF no_fundamental_after_retry(i.attempts) THEN Reject("no_fundamental")
       ELSE IF i.market_cap < params.market_cap_min THEN Reject("market_cap_filter")
       ELSE IF i.pb_none THEN Reject("pb_filter")
       ELSE IF i.pb <= params.pb_min \/ i.pb >= params.pb_max THEN Reject("pb_filter")
       ELSE IF i.beta_none THEN Reject("beta_filter")
       ELSE IF i.beta >= params.beta_max THEN Reject("beta_filter")
       ELSE IF i.months < MinMonths THEN Reject("no_monthly_data")
       ELSE [status |-> "matched", signal |-> monthly_signal(i.dif, i.dea)]

\* lines 312-422 of stock_screener_unified.py, for a registered mode and answers
\* the parsing and the indicator code do not raise on
screen_stock_tab2(i) ==
    LET params == TAB2_MODES[i.mode]
    IN IF no_fundamental_after_retry(i.attempts) THEN Reject("no_fundamental")
       ELSE IF i.pb_none THEN Reject("pb_filter")
       ELSE IF i.pb <= params.pb_min \/ i.pb >= params.pb_max THEN Reject("pb_filter")
       ELSE IF i.market_cap < params.market_cap_min THEN Reject("market_cap_filter")
       ELSE IF i.beta_none THEN Reject("beta_filter")
       ELSE IF i.beta >= params.beta_max THEN Reject("beta_filter")
       ELSE IF i.months < MinMonths THEN Reject("no_monthly_data")
       ELSE [status |-> "matched", signal |-> monthly_signal(i.dif, i.dea)]

\* lines 162-236 of stock_screener_tab2_fundamental.py: screen_stock, which asks for
\* the fundamentals once
fundamental_screen_stock(i) ==
    LET params == FUNDAMENTAL_MODES[i.mode]
    IN IF i.attempts[1] # "ok" THEN Reject("no_fundamental")
       ELSE IF i.pb_none \/ i.pb <= params.pb_min \/ i.pb >= params.pb_max
            THEN Reject("pb_filter")
       ELSE IF i.market_cap < params.market_cap_min THEN Reject("market_cap_filter")
       ELSE IF i.beta_none \/ i.beta >= params.beta_max THEN Reject("beta_filter")
       ELSE IF i.months < MinMonths THEN Reject("no_monthly_data")
       ELSE [status |-> "matched", signal |-> monthly_signal(i.dif, i.dea), roa |-> roa]

\* The answers a fundamental screening call is tried on: every registered mode,
\* fundamentals that come at once, at the second or third attempt or never,
\* price-to-book ratios, capitalisations and betas on and just beside the
\* thresholds of the three modes, a missing, a short and a long enough monthly frame.
AttemptsGrid ==
    {<<"ok", "ok", "ok">>, <<"empty", "ok", "ok">>, <<"raise", "empty", "ok">>,
     <<"empty", "empty", "empty">>, <<"raise", "raise", "raise">>}
PbGrid == {0, 10, 11, 79, 80, 99, 100, 149, 150}
CapGrid == {299, 300, 499, 500, 799, 800}
BetaGrid == {59, 60, 69, 70, 79, 80}
MonthsGrid == {0, MinMonths - 1, MinMonths}

\* a number of the grid, or None (written as the number 0 with the flag set)
OrNone(grid) == {[none |-> FALSE, val |-> v] : v \in grid} \cup {[none |-> TRUE, val |-> 0]}

FundInputs ==
    { [mode |-> m, attempts |-> a, pb_none |-> pb.none, pb |-> pb.val,
       market_cap |-> c, beta_none |-> b.none, beta |-> b.val, months |-> n,
       dea |-> 12, dif |-> 12 + gap] :
        m \in DOMAIN TAB2_MODES, a \in AttemptsGrid, pb \in OrNone(PbGrid),
        c \in CapGrid, b \in OrNone(BetaGrid), n \in MonthsGrid, gap \in GapGrid }

InitFund ==
    /\ JobInit
    /\ WebIdle
    /\ FetchIdle
    /\ inp \in FundInputs
    /\ out = NoOut
    /\ RankIdle
    /\ IndicatorsIdle

\* one call of screen_stock_tab2 and of the standalone screen_stock on the same answers
Fund ==
    /\ out = NoOut
    /\ out' = [tab2 |-> screen_stock_tab2(inp), standalone |-> fundamental_screen_stock(inp)]
    /\ UNCHANGED <<inp, jobVars, rankVars, macdVars, smaVars, resampleVars,
                   fetchVars, webVars>>

NextFund == Fund

SpecFund == InitFund /\ [][NextFund]_vars

(* ------------------ the specification of the ranking --------------------- *)
\* the ranking keys tried: enough for ties and inversions
RankKeys == 0..2

\* results lists in discovery order: the n-th result found carries sym = n
RankInputs ==
    UNION { { [i \in 1..n |-> [sym |-> i, key |-> k[i]]] : k \in [1..n -> RankKeys] } :
            n \in 0..MaxRanked }

\* stock_screener_monthly_macd.py lines 169-181: the keys of the dict that
\* screen_single_stock returns for a symbol that passes
ResultColumns ==
    {"code", "name", "close", "MA20", "MA20_gap_pct", "position", "DEA", "DIF",
     "peak_DEA", "DEA_drop_pct", "MACD_status"}

\* stock_screener_monthly_macd.py line 253: the column given to sort_values
SortColumn == "MA55_gap_pct"

\* the top_n of run_screener, below MaxRanked so that head(top_n) cuts
top_n == 2

\* stock_screener_monthly_macd.py lines 246-259: what run_screener does with the
\* list of the dicts of the symbols that passed, as the set of its possible
\* outcomes. An empty list returns an empty frame (lines 246-248). sort_values
\* raises KeyError for a column the frame does not have; otherwise it orders the
\* rows by the column ascending (quicksort: rows of equal key in any order) and
\* head(top_n) keeps the first top_n. The key of a row stands for the number that
\* screen_single_stock computed as its proximity.
run_screener(results) ==
    IF results = <<>> THEN {[raised |-> "none", rows |-> <<>>]}
    ELSE IF SortColumn \notin ResultColumns
         THEN {[raised |-> "KeyError", rows |-> <<>>]}
    ELSE LET n == Len(results)
             perms == {q \in [1..n -> 1..n] : \A a, b \in 1..n : a # b => q[a] # q[b]}
             asc == {q \in perms :
                        \A a, b \in 1..n : a < b => results[q[a]].key <= results[q[b]].key}
             kept == IF n < top_n THEN n ELSE top_n
         IN {[raised |-> "none", rows |-> [a \in 1..kept |-> results[q[a]]]] : q \in asc}

InitRank ==
    /\ JobInit
    /\ WebIdle
    /\ FetchIdle
    /\ ScreenIdle
    /\ rank_in \in RankInputs
    /\ rank_out = NoRank
    /\ IndicatorsIdle

\* line 470 and line 530 of the unified screener and run_screener of
\* stock_screener_monthly_macd.py, applied to the same list
Rank ==
    /\ ~rank_out.done
    /\ \E m \in run_screener(rank_in) :
           rank_out' = [tab1 |-> Sorted(rank_in, "tab1"),
                        tab2 |-> Sorted(rank_in, "tab2"),
                        monthly |-> m, done |-> TRUE]
    /\ UNCHANGED <<rank_in, jobVars, screenVars, macdVars, smaVars, resampleVars,
                   fetchVars, webVars>>

NextRank == Rank

SpecRank == InitRank /\ [][NextRank]_vars

(* ========================= calculate_macd ================================ *)
(* Numbers are exact. A close series of n bars is scaled by                  *)
(* ((fast + 1) * (slow + 1) * (signal + 1) / 2) ^ (n - 1), which makes every  *)
(* EMA, DIF, DEA and histogram value of its n bars an integer; the divisions  *)
(* below leave no remainder.                                                  *)

\* the defaults of line 93: calculate_macd(df, fast=12, slow=26, signal=9)
fast == 12
slow == 26
signal == 9

RECURSIVE Pow(_, _)
Pow(b, n) == IF n = 0 THEN 1 ELSE b * Pow(b, n - 1)

\* the scale of a series of n bars
MacdScale(n) == Pow(((fast + 1) * (slow + 1) * (signal + 1)) \div 2, n - 1)

Scaled(x) == [t \in 1..Len(x) |-> x[t] * MacdScale(Len(x))]

\* ewm_mean with the first value weighted like every other one (seeded with zero)
RECURSIVE ewm_mean_zero_seed(_, _)
ewm_mean_zero_seed(x, span) ==
    IF x = <<>> THEN <<>>
    ELSE LET before == ewm_mean_zero_seed(SubSeq(x, 1, Len(x) - 1), span)
             y == IF before = <<>> THEN 0 ELSE before[Len(before)]
         IN Append(before, ((span - 1) * y + 2 * x[Len(x)]) \div (span + 1))

\* x.ewm(span=span, adjust=False).mean(): y[0] = x[0],
\* y[t] = (1 - a) * y[t-1] + a * x[t] with a = 2 / (span + 1)
RECURSIVE ewm_mean(_, _)
ewm_mean(x, span) ==
    IF x = <<>> THEN <<>>
    ELSE IF Len(x) = 1 THEN <<x[1]>>
    ELSE LET before == ewm_mean(SubSeq(x, 1, Len(x) - 1), span)
         IN Append(before,
                   ((span - 1) * before[Len(before)] + 2 * x[Len(x)]) \div (span + 1))

\* lines 93-100
calculate_macd(close) ==
    LET ema_fast == ewm_mean(close, fast)
        ema_slow == ewm_mean(close, slow)
        DIF == [t \in 1..Len(close) |-> ema_fast[t] - ema_slow[t]]
        DEA == ewm_mean(DIF, signal)
    IN [ema_fast |-> ema_fast, ema_slow |-> ema_slow, DIF |-> DIF, DEA |-> DEA,
        MACD |-> [t \in 1..Len(close) |-> 2 * (DIF[t] - DEA[t])], done |-> TRUE]

\* the closes tried
PriceGrid == {1, 2, 3, 5, 8, 13, 21}

MacdInputs == UNION { [1..n -> PriceGrid] : n \in 1..MaxMacdBars }

InitMacd ==
    /\ JobInit
    /\ WebIdle
    /\ FetchIdle
    /\ ScreenIdle
    /\ RankIdle
    /\ macd_in \in MacdInputs
    /\ macd_out = NoMacd
    /\ SmaIdle
    /\ ResampleIdle

\* one call of calculate_macd
Macd ==
    /\ ~macd_out.done
    /\ macd_out' = calculate_macd(Scaled(macd_in))
    /\ UNCHANGED <<macd_in, jobVars, screenVars, rankVars, smaVars, resampleVars,
                   fetchVars, webVars>>

NextMacd == Macd

SpecMacd == InitMacd /\ [][NextMacd]_vars

(* ======================= properties of calculate_macd ==================== *)
\* C15: every EMA starts at the first observation, so DIF, DEA and the histogram
\* are 0 at the first bar of every non-empty series; and on a constant series every
\* EMA is that constant at every bar and DIF, DEA and the histogram are 0 throughout.
C15_EmaSeeding ==
    macd_out.done =>
        LET x == Scaled(macd_in)
            m == macd_out
        IN /\ m.ema_fast[1] = x[1] /\ m.ema_slow[1] = x[1]
           /\ m.DIF[1] = 0 /\ m.DEA[1] = 0 /\ m.MACD[1] = 0
           /\ (\A t \in 1..Len(x) : macd_in[t] = macd_in[1]) =>
                 \A t \in 1..Len(x) :
                    /\ m.ema_fast[t] = x[1] /\ m.ema_slow[t] = x[1]
                    /\ m.DIF[t] = 0 /\ m.DEA[t] = 0 /\ m.MACD[t] = 0

\* C15 witness: a constant series of the full length has gone through.
C15_Witness ==
    /\ macd_out.done
    /\ Len(macd_in) = MaxMacdBars
    /\ \A t \in 1..Len(macd_in) : macd_in[t] = macd_in[1]
    /\ macd_out.ema_slow[Len(macd_in)] = macd_in[1] * MacdScale(Len(macd_in))

(* ===================== rolling(window).mean() ============================ *)
\* a missing close (NaN); closes are positive
NaN == 0

\* the window ending at bar i, kept as pandas keeps it: the new bar is added, the
\* bar that leaves the window is removed, missing values are not counted
RECURSIVE roll(_, _, _)
roll(x, period, i) ==
    IF i = 0 THEN [sum |-> 0, nobs |-> 0]
    ELSE LET r == roll(x, period, i - 1)
             added == IF x[i] = NaN THEN r
                      ELSE [sum |-> r.sum + x[i], nobs |-> r.nobs + 1]
         IN IF i > period /\ x[i - period] # NaN
            THEN [sum |-> added.sum - x[i - period], nobs |-> added.nobs - 1]
            ELSE added

\* an undefined mean
NoMean == [nan |-> TRUE, num |-> 0, den |-> 1]

\* rolling_mean with min_periods=1: the mean of whatever the window holds
rolling_mean_min_periods_1(x, period) ==
    [i \in 1..Len(x) |->
        LET r == roll(x, period, i)
        IN IF r.nobs >= 1 THEN [nan |-> FALSE, num |-> r.sum, den |-> r.nobs]
           ELSE NoMean]

\* df['收盘'].rolling(window=period).mean() of line 175 (period = 55) and of
\* calculate_ma: NaN until the window holds `period` values, then the mean num / den
rolling_mean(x, period) ==
    [i \in 1..Len(x) |->
        LET r == roll(x, period, i)
        IN IF r.nobs >= period THEN [nan |-> FALSE, num |-> r.sum, den |-> r.nobs]
           ELSE NoMean]

\* lines 177-185: the last row of the frame. The deviation test compares
\* (close - ma) / ma, so close and ma = num / den are both taken times den; the MACD
\* columns are given values that pass the default mode
last_row(in, ma) ==
    LET n == Len(in.close)
    IN [mode |-> "default", golden_only |-> FALSE, bars |-> in.bars,
        ma_nan |-> ma[n].nan, ma55 |-> ma[n].num, close |-> in.close[n] * ma[n].den,
        dea |-> 12, dif |-> 12, macd |-> 0, prev_macd |-> -2, peak_prev |-> 40]

\* the closes tried: missing, and two values within the band of each other
CloseValues == {NaN, 100, 104}

SmaInputs ==
    { [close |-> x, period |-> p, bars |-> n] :
        x \in UNION { [1..k -> CloseValues] : k \in 1..MaxSmaBars },
        p \in 1..MaxSmaBars, n \in {MinBars - 1, MinBars} }

InitSma ==
    /\ JobInit
    /\ WebIdle
    /\ FetchIdle
    /\ ScreenIdle
    /\ RankIdle
    /\ MacdIdle
    /\ sma_in \in SmaInputs
    /\ sma_out = NoSma
    /\ ResampleIdle

\* line 175 and the decision of lines 171-213 (web: 191-251) on the last row
Sma ==
    /\ ~sma_out.done
    /\ LET ma == rolling_mean(sma_in.close, sma_in.period)
       IN sma_out' = [ma |-> ma, tab1 |-> screen_stock_tab1(last_row(sma_in, ma)),
                      web |-> screen_stock(last_row(sma_in, ma)), done |-> TRUE]
    /\ UNCHANGED <<sma_in, jobVars, screenVars, rankVars, macdVars, resampleVars,
                   fetchVars, webVars>>

NextSma == Sma

SpecSma == InitSma /\ [][NextSma]_vars

(* ===================== properties of the moving average ================== *)
RECURSIVE SumFromTo(_, _, _)
SumFromTo(x, a, b) == IF a > b THEN 0 ELSE x[a] + SumFromTo(x, a + 1, b)

\* C16: the moving average is undefined at every index below period - 1, and where
\* the window is full of closes it is their exact mean (sum / period); and a symbol
\* whose latest moving average is undefined is rejected by both screen functions
\* for lack of history (no_ma, or no_data when the series is short), never
\* evaluated and never matched, while a defined one is never rejected that way.
C16_MovingAverage ==
    sma_out.done =>
        LET x == sma_in.close
            p == sma_in.period
            ma == sma_out.ma
            latest == ma[Len(x)]
        IN /\ \A i \in 1..Len(x) : i < p => ma[i].nan
           /\ \A i \in 1..Len(x) :
                 (i >= p /\ \A j \in (i - p + 1)..i : x[j] # NaN) =>
                     /\ ~ma[i].nan
                     /\ ma[i].num = SumFromTo(x, i - p + 1, i)
                     /\ ma[i].den = p
           /\ \A r \in {sma_out.tab1, sma_out.web} :
                 /\ latest.nan =>
                       r.status = IF sma_in.bars < 100 THEN "no_data" ELSE "no_ma"
                 /\ (~latest.nan /\ sma_in.bars >= 100) => r.status # "no_ma"

\* C16 witness: with a window of two bars the first bar has no average, the second
\* has the mean of the first two closes, and the latest bar, whose close is missing,
\* has none: the symbol is rejected with no_ma.
C16_Witness ==
    /\ sma_out.done
    /\ sma_in.period = 2 /\ Len(sma_in.close) >= 3 /\ sma_in.bars = MinBars
    /\ sma_out.ma[1].nan
    /\ ~sma_out.ma[2].nan /\ sma_out.ma[2].num = sma_in.close[1] + sma_in.close[2]
    /\ sma_out.ma[Len(sma_in.close)].nan
    /\ sma_out.tab1.status = "no_ma" /\ sma_out.web.status = "no_ma"

(* ============== resample("W-FRI").agg(...).dropna() ====================== *)
(* Dates are day numbers; day 0 is a Monday, so d % 7 = 4 is a Friday.        *)

\* the Friday that ends the week of day d: the bins of W-FRI are (Friday - 7, Friday]
WeekEnd(d) == d + (((4 - (d % 7)) + 7) % 7)

\* line 138: sort_index()
RECURSIVE sort_index(_)
sort_index(rows) ==
    IF rows = <<>> THEN <<>>
    ELSE LET first == CHOOSE i \in 1..Len(rows) :
                         \A j \in 1..Len(rows) : rows[i].date <= rows[j].date
         IN <<rows[first]>> \o
            sort_index(SubSeq(rows, 1, first - 1) \o SubSeq(rows, first + 1, Len(rows)))

RECURSIVE SeqSum(_)
SeqSum(x) == IF x = <<>> THEN 0 ELSE x[1] + SeqSum(Tail(x))

SeqMax(x) == CHOOSE v \in {x[i] : i \in 1..Len(x)} : \A i \in 1..Len(x) : v >= x[i]
SeqMin(x) == CHOOSE v \in {x[i] : i \in 1..Len(x)} : \A i \in 1..Len(x) : v <= x[i]

\* lines 141-145: one row per bin from the first to the last week of the data; a bin
\* without rows gets NaN (first, max, min, last) and 0 (sum)
agg(s, friday) ==
    LET g == SelectSeq(s, LAMBDA r : WeekEnd(r.date) = friday)
    IN IF g = <<>>
       THEN [date |-> friday, nan |-> TRUE, open |-> NaN, high |-> NaN, low |-> NaN,
             close |-> NaN, volume |-> 0]
       ELSE [date |-> friday, nan |-> FALSE,
             open |-> g[1].open,
             high |-> SeqMax([i \in 1..Len(g) |-> g[i].high]),
             low |-> SeqMin([i \in 1..Len(g) |-> g[i].low]),
             close |-> g[Len(g)].close,
             volume |-> SeqSum([i \in 1..Len(g) |-> g[i].amount])]

\* resample_W_FRI without the dropna() of line 146
resample_W_FRI_keep_empty(rows) ==
    LET s == sort_index(rows)
        first == WeekEnd(s[1].date)
        last == WeekEnd(s[Len(s)].date)
    IN [k \in 1..((last - first) \div 7 + 1) |-> agg(s, first + 7 * (k - 1))]

\* lines 136-156 (web: 115-146) on a non-empty daily frame
resample_W_FRI(rows) ==
    LET s == sort_index(rows)
        first == WeekEnd(s[1].date)
        last == WeekEnd(s[Len(s)].date)
        bins == [k \in 1..((last - first) \div 7 + 1) |-> agg(s, first + 7 * (k - 1))]
    IN SelectSeq(bins, LAMBDA w : ~w.nan)

\* The trading days tried: Monday, Thursday, Friday and Saturday of a first week,
\* Monday and Friday of a second, Saturday and the Friday after it of a third.
DayGrid == {0, 3, 4, 5, 7, 11, 12, 18}

\* the bar of day d in a rising and in a falling market
DailyBar(d, trend) ==
    LET price == IF trend = "rising" THEN 100 + d ELSE 140 - d
    IN [date |-> d, open |-> price, high |-> price + 5 * (d % 3),
        low |-> price - 3 * (d % 2) - 1, close |-> price + (d % 3) - 1,
        amount |-> 1 + (d % 4)]

RECURSIVE Ascending(_, _)
Ascending(days, trend) ==
    IF days = {} THEN <<>>
    ELSE LET d == CHOOSE x \in days : \A y \in days : x <= y
         IN <<DailyBar(d, trend)>> \o Ascending(days \ {d}, trend)

Reversed(x) == [i \in 1..Len(x) |-> x[Len(x) + 1 - i]]

\* non-empty daily frames, oldest or newest bar first
DailyInputs ==
    { IF newest_first THEN Reversed(Ascending(days, trend)) ELSE Ascending(days, trend) :
        days \in (SUBSET DayGrid) \ {{}}, trend \in {"rising", "falling"},
        newest_first \in BOOLEAN }

InitResample ==
    /\ JobInit
    /\ WebIdle
    /\ FetchIdle
    /\ ScreenIdle
    /\ RankIdle
    /\ MacdIdle
    /\ SmaIdle
    /\ daily \in DailyInputs
    /\ weekly = NoWeekly

\* lines 136-156
Resample ==
    /\ ~weekly.done
    /\ weekly' = [bars |-> resample_W_FRI(daily), done |-> TRUE]
    /\ UNCHANGED <<daily, jobVars, screenVars, rankVars, macdVars, smaVars,
                   fetchVars, webVars>>

NextResample == Resample

SpecResample == InitResample /\ [][NextResample]_vars

(* ======================= properties of the resampling ==================== *)
\* the daily rows of the week that ends on Friday f
RowsOfWeek(f) == {i \in 1..Len(daily) : f - 6 <= daily[i].date /\ daily[i].date <= f}

RECURSIVE AmountOf(_)
AmountOf(rowset) ==
    IF rowset = {} THEN 0
    ELSE LET i == CHOOSE x \in rowset : TRUE
         IN daily[i].amount + AmountOf(rowset \ {i})

\* C17: the weekly frame has exactly one bar for every week ending on a Friday that
\* holds a daily bar, dated that Friday, with open = the open of the week's first
\* day, high = the largest high, low = the smallest low, close = the close of the
\* week's last day and volume = the sum; it has no bar for a week without daily
\* bars, and its dates increase strictly.
C17_WeeklyResample ==
    weekly.done =>
        LET w == weekly.bars
            fridays == {f \in 0..(6 + SeqMax([i \in 1..Len(daily) |-> daily[i].date])) :
                           f % 7 = 4 /\ RowsOfWeek(f) # {}}
        IN /\ \A f \in fridays :
                 /\ Cardinality({k \in 1..Len(w) : w[k].date = f}) = 1
                 /\ LET b == w[CHOOSE k \in 1..Len(w) : w[k].date = f]
                        g == RowsOfWeek(f)
                        first == CHOOSE i \in g : \A j \in g : daily[i].date <= daily[j].date
                        last == CHOOSE i \in g : \A j \in g : daily[i].date >= daily[j].date
                    IN /\ b.open = daily[first].open
                       /\ b.close = daily[last].close
                       /\ \A i \in g : b.high >= daily[i].high /\ b.low <= daily[i].low
                       /\ \E i \in g : b.high = daily[i].high
                       /\ \E i \in g : b.low = daily[i].low
                       /\ b.volume = AmountOf(g)
           /\ \A k \in 1..Len(w) : w[k].date \in fridays
           /\ \A k \in 1..(Len(w) - 1) : w[k].date < w[k + 1].date

\* C17 witness: daily bars, newest first, of a first week with several trading days
\* and of the week after next; the week between them has none, and the weekly frame
\* has two bars a fortnight apart.
C17_Witness ==
    /\ weekly.done
    /\ Len(daily) >= 3 /\ daily[1].date > daily[2].date
    /\ Len(weekly.bars) = 2
    /\ weekly.bars[2].date = weekly.bars[1].date + 14
    /\ weekly.bars[1].open # weekly.bars[1].close

\* C31: when the newest daily bar is of a day before the Friday that ends its week,
\* the weekly frame has no bar for that week: the incomplete trailing week is
\* dropped.
C31_NoIncompleteTrailingWeek ==
    weekly.done =>
        LET newest == SeqMax([i \in 1..Len(daily) |-> daily[i].date])
        IN newest < WeekEnd(newest) =>
               \A k \in 1..Len(weekly.bars) : weekly.bars[k].date # WeekEnd(newest)

(* ============ get_weekly_data_tab1 / get_weekly_data ===================== *)
(* The provider as the symbol loop of a run calls it, once per symbol. In     *)
(* stock_screener_unified.py the whole body runs inside `with API_LOCK` and    *)
(* the task lock of tab1 lets one run in at a time; in stock_screener_web.py   *)
(* there is no lock and every /start request begins a run of its own. What a   *)
(* remote call answers is the environment's choice: "full" is a frame of at   *)
(* least 55 bars, "short" a smaller one (or None from the primary source),     *)
(* "empty" an empty or missing daily frame, "raise" any exception. The writes  *)
(* of data_source and message are not modelled.                                *)

jobVarsButApiLock == <<heap, STATE_, TASK_LOCKS, nStarts, resp, pc, wtab, wmode,
                       state, stocks, idx, ret, exc, stage>>
computeVars == <<screenVars, rankVars, macdVars, smaVars, resampleVars, webVars>>

PrimaryAnswers == {"full", "short", "raise"}
FallbackAnswers == {"full", "short", "empty", "raise"}

\* the thread of run_task / run_task_tab1 reaches its symbol loop; in the unified
\* screener only while no other run holds TASK_LOCKS['tab1'] (line 428)
FetchRunStart(r) ==
    /\ fpc[r] = "idle"
    /\ screener = "unified" => \A q \in FetchRuns \ {r} : fpc[q] \in {"idle", "ended"}
    /\ fpc' = [fpc EXCEPT ![r] = "enter"]
    /\ UNCHANGED <<screener, DATA_SOURCE_HEALTH, fsym, retry, calls, fetched,
                   primary_raised, jobVars, computeVars>>

\* the lock is taken whatever the health flag says, and the primary source is called
\* even when the flag is False
EnterIgnoringHealth(r) ==
    /\ fpc[r] = "enter"
    /\ IF screener = "unified"
       THEN ~API_LOCK /\ API_LOCK' = TRUE
       ELSE UNCHANGED API_LOCK
    /\ retry' = [retry EXCEPT ![r] = 0]
    /\ fetched' = [fetched EXCEPT ![r] = "none"]
    /\ calls' = [calls EXCEPT ![r] = <<"eastmoney">>]
    /\ fpc' = [fpc EXCEPT ![r] = "primary_in"]
    /\ UNCHANGED <<screener, DATA_SOURCE_HEALTH, fsym, primary_raised,
                   jobVarsButApiLock, computeVars>>

\* lines 108-112 (web: 158-160): with API_LOCK (unified only);
\* if DATA_SOURCE_HEALTH.get("eastmoney_ok") is not False: the primary call begins;
\* otherwise control is at the fallback loop
Enter(r) ==
    /\ fpc[r] = "enter"
    /\ IF screener = "unified"
       THEN ~API_LOCK /\ API_LOCK' = TRUE
       ELSE UNCHANGED API_LOCK
    /\ retry' = [retry EXCEPT ![r] = 0]
    /\ fetched' = [fetched EXCEPT ![r] = "none"]
    /\ IF DATA_SOURCE_HEALTH # "False"
       THEN /\ calls' = [calls EXCEPT ![r] = <<"eastmoney">>]
            /\ fpc' = [fpc EXCEPT ![r] = "primary_in"]
       ELSE /\ calls' = [calls EXCEPT ![r] = <<>>]
            /\ fpc' = [fpc EXCEPT ![r] = "fallback"]
    /\ UNCHANGED <<screener, DATA_SOURCE_HEALTH, fsym, primary_raised,
                   jobVarsButApiLock, computeVars>>

\* the fetch returns: the with block is left and the loop goes to the next symbol
Returned(r, what) ==
    /\ fetched' = [fetched EXCEPT ![r] = what]
    /\ fsym' = [fsym EXCEPT ![r] = @ + 1]
    /\ fpc' = [fpc EXCEPT ![r] = IF fsym[r] + 1 < MaxSymbols THEN "enter" ELSE "ended"]
    /\ IF screener = "unified" THEN API_LOCK' = FALSE ELSE UNCHANGED API_LOCK

\* lines 113-122 (web: 160-168): the primary call answers. At least 55 bars: the flag
\* is set True and the frame returned; fewer: on to the fallback; an exception: the
\* flag is set False, on to the fallback
PrimaryReturn(r, answer) ==
    /\ fpc[r] = "primary_in"
    /\ answer \in PrimaryAnswers
    /\ IF answer = "full"
       THEN /\ DATA_SOURCE_HEALTH' = "True"
            /\ Returned(r, "eastmoney")
            /\ UNCHANGED primary_raised
       ELSE /\ DATA_SOURCE_HEALTH' =
                  IF answer = "raise" THEN "False" ELSE DATA_SOURCE_HEALTH
            /\ primary_raised' =
                  [primary_raised EXCEPT ![r] = @ \/ answer = "raise"]
            /\ fpc' = [fpc EXCEPT ![r] = "fallback"]
            /\ UNCHANGED <<fetched, fsym, API_LOCK>>
    /\ UNCHANGED <<screener, retry, calls, jobVarsButApiLock, computeVars>>

\* lines 125-132 (web: 171-173): for retry in range(2): the daily call begins
FallbackCall(r) ==
    /\ fpc[r] = "fallback"
    /\ retry[r] < 2
    /\ calls' = [calls EXCEPT ![r] = Append(@, "tencent")]
    /\ fpc' = [fpc EXCEPT ![r] = "fallback_in"]
    /\ UNCHANGED <<screener, DATA_SOURCE_HEALTH, fsym, retry, fetched,
                   primary_raised, jobVars, computeVars>>

\* lines 133-160 (web: 174-179): the daily call answers. Unified: an empty frame or
\* an exception goes to the next attempt, any other frame is resampled and returned.
\* Web: only a resampled frame of at least 55 bars is returned. An exception in the
\* first attempt (retry < 1) sleeps before the next one (lines 158-160, web: 178-179)
FallbackReturn(r, answer) ==
    /\ fpc[r] = "fallback_in"
    /\ answer \in FallbackAnswers
    /\ IF answer = "full" \/ (answer = "short" /\ screener = "unified")
       THEN /\ Returned(r, "tencent")
            /\ UNCHANGED retry
       ELSE IF answer = "raise" /\ retry[r] < 1
       THEN /\ fpc' = [fpc EXCEPT ![r] = "backoff"]
            /\ UNCHANGED <<retry, fetched, fsym, API_LOCK>>
       ELSE /\ retry' = [retry EXCEPT ![r] = @ + 1]
            /\ fpc' = [fpc EXCEPT ![r] = "fallback"]
            /\ UNCHANGED <<fetched, fsym, API_LOCK>>
    /\ UNCHANGED <<screener, DATA_SOURCE_HEALTH, calls, primary_raised,
                   jobVarsButApiLock, computeVars>>

\* line 159 (web: 179): time.sleep(0.5) is over; in the unified screener the with
\* block of line 108 is still open around it
Backoff(r) ==
    /\ fpc[r] = "backoff"
    /\ retry' = [retry EXCEPT ![r] = @ + 1]
    /\ fpc' = [fpc EXCEPT ![r] = "fallback"]
    /\ UNCHANGED <<screener, DATA_SOURCE_HEALTH, fsym, calls, fetched,
                   primary_raised, jobVars, computeVars>>

\* line 162 (web: 181): the loop is exhausted: return None
FallbackExhausted(r) ==
    /\ fpc[r] = "fallback"
    /\ retry[r] = 2
    /\ Returned(r, "None")
    /\ UNCHANGED <<screener, DATA_SOURCE_HEALTH, retry, calls, primary_raised,
                   jobVarsButApiLock, computeVars>>

InitFetch ==
    /\ JobInit
    /\ WebIdle
    /\ ScreenIdle
    /\ RankIdle
    /\ IndicatorsIdle
    /\ screener \in {"unified", "web"}
    /\ DATA_SOURCE_HEALTH = "None"
    /\ fpc = [r \in FetchRuns |-> "idle"]
    /\ fsym = [r \in FetchRuns |-> 0]
    /\ retry = [r \in FetchRuns |-> 0]
    /\ calls = [r \in FetchRuns |-> <<>>]
    /\ fetched = [r \in FetchRuns |-> "none"]
    /\ primary_raised = [r \in FetchRuns |-> FALSE]

NextFetch ==
    \E r \in FetchRuns :
        \/ FetchRunStart(r)
        \/ Enter(r)
        \/ \E answer \in PrimaryAnswers : PrimaryReturn(r, answer)
        \/ FallbackCall(r)
        \/ \E answer \in FallbackAnswers : FallbackReturn(r, answer)
        \/ Backoff(r)
        \/ FallbackExhausted(r)

SpecFetch == InitFetch /\ [][NextFetch]_vars

(* ========================= properties of the provider ==================== *)
Count(x, v) == Cardinality({i \in 1..Len(x) : x[i] = v})

\* C37: a run of the unified screener that holds API_LOCK has made at most one
\* remote call since it took the lock, and it is not sleeping between two
\* attempts.
C37_LockSpansOneCall ==
    \A r \in FetchRuns :
        (screener = "unified" /\ API_LOCK
           /\ fpc[r] \in {"primary_in", "fallback", "fallback_in", "backoff"}) =>
            /\ Len(calls[r]) <= 1
            /\ fpc[r] # "backoff"

\* C18: for one symbol the primary source is called first, at most once, and only
\* while the health flag is not False; when it answers with at least 55 bars that
\* frame is returned and the fallback is not called; when it raises or answers with
\* less, the fallback is called, at most twice, and its frame is the resampled one;
\* and when no source yields data the fetch returns None after both fallback
\* attempts: it never raises.
C18_SourceOrder ==
    /\ [](\A r \in FetchRuns :
            /\ Count(calls[r], "eastmoney") <= 1
            /\ Count(calls[r], "tencent") <= 2
            /\ \A i \in 1..Len(calls[r]) : calls[r][i] = "eastmoney" => i = 1
            /\ fetched[r] \in {"none", "eastmoney", "tencent", "None"}
            /\ fetched[r] = "eastmoney" => calls[r] = <<"eastmoney">>
            /\ fetched[r] = "tencent" =>
                  /\ Count(calls[r], "tencent") >= 1
                  /\ calls[r][Len(calls[r])] = "tencent"
            /\ fetched[r] = "None" => Count(calls[r], "tencent") = 2)
    /\ [][\A r \in FetchRuns :
            /\ (calls'[r] # calls[r] /\ calls'[r] # <<>>
                    /\ calls'[r][Len(calls'[r])] = "eastmoney")
                  => DATA_SOURCE_HEALTH # "False"
            /\ (fpc[r] = "primary_in" /\ fpc'[r] # "primary_in") =>
                  \/ fetched'[r] = "eastmoney" /\ DATA_SOURCE_HEALTH' = "True"
                  \/ fpc'[r] = "fallback" /\ fetched'[r] = "none"
            /\ (fpc[r] = "fallback" /\ fetched'[r] = "none") =>
                  fpc'[r] \in {"fallback", "fallback_in"}]_vars

\* C18 witness: the primary source raised, both fallback attempts failed, and the
\* fetch returned None.
C18_Witness ==
    \E r \in FetchRuns :
        /\ fetched[r] = "None"
        /\ calls[r] = <<"eastmoney", "tencent", "tencent">>
        /\ primary_raised[r]

\* C19: once a call to the primary source has raised in a run, then for as long as
\* that run goes on the health flag is False and stays False, and the run issues no
\* further call to the primary source.
C19_DownStaysDown ==
    /\ [](\A r \in FetchRuns :
            (primary_raised[r] /\ fpc[r] # "ended") => DATA_SOURCE_HEALTH = "False")
    /\ [][\A r \in FetchRuns :
            (primary_raised[r] /\ fpc[r] # "ended") =>
                /\ DATA_SOURCE_HEALTH = "False" => DATA_SOURCE_HEALTH' = "False"
                /\ fpc'[r] = "primary_in" => fpc[r] = "primary_in"]_vars

\* C29: in the unified screener a mark of the primary source as down does not
\* outlive the tab1 run it was made in: when a run begins after every other run has
\* ended the health flag is not False, and the first symbol of that run calls the
\* primary source.
C29_HealthLivesOneRun ==
    [][\A r \in FetchRuns :
          (screener = "unified" /\ \A q \in FetchRuns \ {r} : fpc[q] \in {"idle", "ended"}) =>
              /\ (fpc[r] = "idle" /\ fpc'[r] = "enter") => DATA_SOURCE_HEALTH' # "False"
              /\ (fpc[r] = "enter" /\ fsym[r] = 0 /\ fpc'[r] # "enter")
                    => fpc'[r] = "primary_in" /\ calls'[r] = <<"eastmoney">>]_vars

\* C30: the health flag is flipped to False only by a fetch that has called the
\* primary source more than once for its symbol: one raised call does not, by
\* itself, mark the source as down.
C30_DownAfterRetries ==
    [][(DATA_SOURCE_HEALTH' = "False" /\ DATA_SOURCE_HEALTH # "False")
          => \E r \in FetchRuns :
                 fpc[r] = "primary_in" /\ Count(calls[r], "eastmoney") >= 2]_vars

(* ================ stock_screener_web.py: start and run_task ============== *)
(* The web screener has one global STATE, no lock, and a /start route that     *)
(* binds STATE to a new dict and begins a thread on every request. run_task    *)
(* holds no reference of its own: every statement reads the global STATE       *)
(* again, so after a later /start request an older thread goes on in the new   *)
(* dict and with the new mode. The dict STATE named before is garbage at once. *)
(* Each statement of run_task is one step; the provider calls inside           *)
(* screen_stock are one step from its call to its return.                      *)

outsideWeb == <<jobVars, screenVars, rankVars, macdVars, smaVars, resampleVars,
                fetchVars>>

\* the status codes screen_stock returns
WebReturnCodes ==
    {"no_data", "no_ma", "below_ma", "too_far", "low_history", "no_pullback",
     "dea_range", "no_golden", "matched", "error"}

\* line 280: elif status in ['no_data', 'error']
WebFailedCodes == {"no_data", "error"}

\* lines 448-458: STATE = {...}; threading.Thread(target=run_task).start()
web_start(mode) ==
    /\ nWebStarts < Cardinality(WebThreads)
    /\ WSTATE' = FreshDict(mode)
    /\ nWebStarts' = nWebStarts + 1
    /\ tpc' = [tpc EXCEPT ![nWebStarts + 1] = "update"]
    /\ UNCHANGED <<tstocks, tidx, texc, outsideWeb>>

\* lines 256-257: STATE.update({...}); then line 260, the universe call, begins
WebUpdate(t) ==
    /\ tpc[t] = "update"
    /\ WSTATE' = [WSTATE EXCEPT !.status = "running", !.progress = 0,
                                !.results = <<>>, !.stats = [success |-> 0,
                                failed |-> 0, matched |-> 0],
                                !.message = Msg("loading", 0)]
    /\ tpc' = [tpc EXCEPT ![t] = "universe_in"]
    /\ UNCHANGED <<nWebStarts, tstocks, tidx, texc, outsideWeb>>

\* lines 260-265: the universe call returns; filter and sample
WebUniverseReturn(t, n) ==
    /\ tpc[t] = "universe_in"
    /\ tstocks' = [tstocks EXCEPT ![t] = n]
    /\ tpc' = [tpc EXCEPT ![t] = "total"]
    /\ UNCHANGED <<WSTATE, nWebStarts, tidx, texc, outsideWeb>>

\* line 260 raises: control goes to line 289
WebUniverseRaise(t) ==
    /\ tpc[t] = "universe_in"
    /\ texc' = [texc EXCEPT ![t] = "universe"]
    /\ tpc' = [tpc EXCEPT ![t] = "exc_status"]
    /\ UNCHANGED <<WSTATE, nWebStarts, tstocks, tidx, outsideWeb>>

\* line 267: STATE['total'] = len(stocks)
WebSetTotal(t) ==
    /\ tpc[t] = "total"
    /\ WSTATE' = [WSTATE EXCEPT !.total = tstocks[t]]
    /\ tpc' = [tpc EXCEPT ![t] = "loop_message"]
    /\ UNCHANGED <<nWebStarts, tstocks, tidx, texc, outsideWeb>>

\* line 268: STATE['message'] = f'筛选 {len(stocks)} 只股票...'; the loop starts
WebLoopMessage(t) ==
    /\ tpc[t] = "loop_message"
    /\ WSTATE' = [WSTATE EXCEPT !.message = Msg("screening", tstocks[t])]
    /\ tidx' = [tidx EXCEPT ![t] = 0]
    /\ tpc' = [tpc EXCEPT ![t] = LoopNext(0, tstocks[t])]
    /\ UNCHANGED <<nWebStarts, tstocks, texc, outsideWeb>>

\* line 272: STATE['progress'] = i + 1
WebProgress(t) ==
    /\ tpc[t] = "progress"
    /\ WSTATE' = [WSTATE EXCEPT !.progress = tidx[t] + 1]
    /\ tpc' = [tpc EXCEPT ![t] = "screen"]
    /\ UNCHANGED <<nWebStarts, tstocks, tidx, texc, outsideWeb>>

\* line 275 -> 186: screen_stock(..., STATE['mode'], ...) is called with the mode
\* STATE holds now; params = MODES[mode] is outside the try of screen_stock, so an
\* unregistered mode raises KeyError into run_task (line 289)
WebScreenCall(t) ==
    /\ tpc[t] = "screen"
    /\ IF WSTATE.mode \in DOMAIN MODES
       THEN /\ tpc' = [tpc EXCEPT ![t] = "screen_in"]
            /\ UNCHANGED texc
       ELSE /\ tpc' = [tpc EXCEPT ![t] = "exc_status"]
            /\ texc' = [texc EXCEPT ![t] = "KeyError"]
    /\ UNCHANGED <<WSTATE, nWebStarts, tstocks, tidx, outsideWeb>>

\* lines 276-284: screen_stock returns (result, status);
\* if result: append | elif status in [...]: failed += 1 | else: success += 1
WebClassify(t, code) ==
    /\ tpc[t] = "screen_in"
    /\ code \in WebReturnCodes
    /\ IF code = "matched"
       THEN /\ WSTATE' = [WSTATE EXCEPT !.results =
                             Append(@, [sym |-> tidx[t] + 1,
                                        key |-> KeyOf("tab1", tidx[t] + 1)])]
            /\ tpc' = [tpc EXCEPT ![t] = "inc_matched"]
            /\ UNCHANGED tidx
       ELSE /\ IF code \in WebFailedCodes
               THEN WSTATE' = [WSTATE EXCEPT !.stats.failed = @ + 1]
               ELSE WSTATE' = [WSTATE EXCEPT !.stats.success = @ + 1]
            /\ tidx' = [tidx EXCEPT ![t] = @ + 1]
            /\ tpc' = [tpc EXCEPT ![t] = LoopNext(tidx[t] + 1, tstocks[t])]
    /\ UNCHANGED <<nWebStarts, tstocks, texc, outsideWeb>>

\* line 278: STATE['stats']['matched'] += 1
WebIncMatched(t) ==
    /\ tpc[t] = "inc_matched"
    /\ WSTATE' = [WSTATE EXCEPT !.stats.matched = @ + 1]
    /\ tpc' = [tpc EXCEPT ![t] = "inc_success"]
    /\ UNCHANGED <<nWebStarts, tstocks, tidx, texc, outsideWeb>>

\* line 279: STATE['stats']['success'] += 1, then the sleep and the next symbol
WebIncSuccess(t) ==
    /\ tpc[t] = "inc_success"
    /\ WSTATE' = [WSTATE EXCEPT !.stats.success = @ + 1]
    /\ tidx' = [tidx EXCEPT ![t] = @ + 1]
    /\ tpc' = [tpc EXCEPT ![t] = LoopNext(tidx[t] + 1, tstocks[t])]
    /\ UNCHANGED <<nWebStarts, tstocks, texc, outsideWeb>>

\* line 286: STATE['results'] = sorted(STATE['results'], key=lambda x: x['偏离度%'])
WebSort(t) ==
    /\ tpc[t] = "sort"
    /\ WSTATE' = [WSTATE EXCEPT !.results = Sorted(@, "tab1")]
    /\ tpc' = [tpc EXCEPT ![t] = "completed"]
    /\ UNCHANGED <<nWebStarts, tstocks, tidx, texc, outsideWeb>>

\* line 287: STATE['status'] = 'completed'
WebCompleted(t) ==
    /\ tpc[t] = "completed"
    /\ WSTATE' = [WSTATE EXCEPT !.status = "completed"]
    /\ tpc' = [tpc EXCEPT ![t] = "message"]
    /\ UNCHANGED <<nWebStarts, tstocks, tidx, texc, outsideWeb>>

\* the thread ends and its locals die
WebThreadEnd(t) ==
    /\ tpc' = [tpc EXCEPT ![t] = "done"]
    /\ tstocks' = [tstocks EXCEPT ![t] = 0]
    /\ tidx' = [tidx EXCEPT ![t] = 0]
    /\ texc' = [texc EXCEPT ![t] = "none"]

\* line 288: STATE['message'] = f'完成! 找到 {len(STATE["results"])} 只股票'
WebDoneMessage(t) ==
    /\ tpc[t] = "message"
    /\ WSTATE' = [WSTATE EXCEPT !.message = Msg("done", Len(WSTATE.results))]
    /\ WebThreadEnd(t)
    /\ UNCHANGED <<nWebStarts, outsideWeb>>

\* the handler of line 289 throwing the job state away:
\* STATE.update({'status': 'error', 'results': [], 'stats': {...}})
WebExceptReset(t) ==
    /\ tpc[t] = "exc_status"
    /\ WSTATE' = [WSTATE EXCEPT !.status = "error", !.results = <<>>,
                                !.stats = [success |-> 0, failed |-> 0,
                                           matched |-> 0]]
    /\ tpc' = [tpc EXCEPT ![t] = "exc_message"]
    /\ UNCHANGED <<nWebStarts, tstocks, tidx, texc, outsideWeb>>

\* line 290: STATE['status'] = 'error'
WebExceptStatus(t) ==
    /\ tpc[t] = "exc_status"
    /\ WSTATE' = [WSTATE EXCEPT !.status = "error"]
    /\ tpc' = [tpc EXCEPT ![t] = "exc_message"]
    /\ UNCHANGED <<nWebStarts, tstocks, tidx, texc, outsideWeb>>

\* line 291: STATE['message'] = str(e)
WebExceptMessage(t) ==
    /\ tpc[t] = "exc_message"
    /\ WSTATE' = [WSTATE EXCEPT !.message = Msg(texc[t], 0)]
    /\ WebThreadEnd(t)
    /\ UNCHANGED <<nWebStarts, outsideWeb>>

InitWeb ==
    /\ JobInit
    /\ FetchIdle
    /\ ScreenIdle
    /\ RankIdle
    /\ IndicatorsIdle
    /\ WSTATE = FreshDict("default")
    /\ nWebStarts = 0
    /\ tpc = [t \in WebThreads |-> "unborn"]
    /\ tstocks = [t \in WebThreads |-> 0]
    /\ tidx = [t \in WebThreads |-> 0]
    /\ texc = [t \in WebThreads |-> "none"]

NextWeb ==
    \/ \E mode \in RequestModes : web_start(mode)
    \/ \E t \in WebThreads :
        \/ WebUpdate(t)
        \/ \E n \in 0..MaxStocks : WebUniverseReturn(t, n)
        \/ WebUniverseRaise(t)
        \/ WebSetTotal(t)
        \/ WebLoopMessage(t)
        \/ WebProgress(t)
        \/ WebScreenCall(t)
        \/ \E code \in WebReturnCodes : WebClassify(t, code)
        \/ WebIncMatched(t)
        \/ WebIncSuccess(t)
        \/ WebSort(t)
        \/ WebCompleted(t)
        \/ WebDoneMessage(t)
        \/ WebExceptStatus(t)
        \/ WebExceptMessage(t)

SpecWeb == InitWeb /\ [][NextWeb]_vars

(* ======================= properties of the web screener ================== *)
\* C20: the step that puts the job state a status query returns into status error,
\* and every step of the handler after it, leaves results, stats, progress and
\* total as they were: the results accumulated before the failure are still there.
C20_ErrorKeepsResults ==
    [][(\/ WSTATE'.status = "error" /\ WSTATE.status # "error"
        \/ \E t \in WebThreads :
              tpc[t] \in {"exc_status", "exc_message"} /\ tpc'[t] # tpc[t])
       => /\ WSTATE'.results = WSTATE.results
          /\ WSTATE'.stats = WSTATE.stats
          /\ WSTATE'.progress = WSTATE.progress
          /\ WSTATE'.total = WSTATE.total]_vars

\* C20 witness: a thread that had already finished a symbol met an exception at a
\* later one, and the job state is in status error with a matched result in it.
C20_Witness ==
    \E t \in WebThreads :
        /\ tpc[t] = "exc_message" /\ tidx[t] >= 1
        /\ WSTATE.status = "error"
        /\ WSTATE.stats.matched >= 1 /\ Len(WSTATE.results) >= 1

\* a thread of run_task that has written to the job state and has not ended
WebRunning(t) == tpc[t] \notin {"unborn", "update", "done"}

\* C22: a start request that arrives while a job is running does not put a second
\* worker to work on the job state: at most one thread of run_task writes progress,
\* stats and results at a time, and stats.success + stats.failed never exceeds
\* total.
C22_WebSingleFlight ==
    /\ Cardinality({t \in WebThreads : WebRunning(t)}) <= 1
    /\ WSTATE.stats.success + WSTATE.stats.failed <= WSTATE.total

\* the statements of the loop over the symbols, lines 270-285
WebLoopPcs == {"progress", "screen", "screen_in", "inc_matched", "inc_success"}

\* C27: while a thread of run_task is in its loop over the symbols the progress
\* counter never exceeds total; the step that begins a symbol raises it by exactly
\* one and no step of the loop lowers it; when the job is completed it equals total.
C27_ProgressCounts ==
    /\ [](/\ (\E t \in WebThreads : tpc[t] \in WebLoopPcs)
                => WSTATE.progress <= WSTATE.total
          /\ WSTATE.status = "completed" => WSTATE.progress = WSTATE.total)
    /\ [][\A t \in WebThreads :
            (tpc[t] \in WebLoopPcs /\ tpc'[t] # tpc[t])
                => /\ WSTATE'.progress >= WSTATE.progress
                   /\ tpc[t] = "progress" => WSTATE'.progress = WSTATE.progress + 1]_vars

\* C38: in the web screener, while a thread of run_task has the screening call of
\* its current symbol still ahead (it reads STATE['mode'] when it makes the call),
\* no step changes the mode that the call will be given: the mode of a run is the
\* one of the start request that created it.
C38_ModeFixedForRun ==
    [][\A t \in WebThreads :
          tpc[t] \in {"progress", "screen"} => WSTATE'.mode = WSTATE.mode]_vars

(* ======================= properties of the orchestrator =================== *)
\* the statements between TASK_LOCKS[tab].acquire and TASK_LOCKS[tab].release
SectionPcs == BoundPcs \cup {"bind"}
RejectedPcs == {"rej_status", "rej_message", "rejected"}
ExceptPcs == {"exc_status", "exc_message"}
ZeroStats == [success |-> 0, failed |-> 0, matched |-> 0]

\* C1: a start request for a job class whose worker is running is answered busy and
\* leaves the dict the status query reports (status, progress, stats, results)
\* as it was.
C1_BusyWhileRunning ==
    [][\A tab \in Tabs :
          (nStarts' = nStarts + 1 /\ STATE_'[tab] # STATE_[tab] /\ TASK_LOCKS[tab])
          => (resp' = "busy" /\ status(tab)' = status(tab))]_vars

\* C2: per job class at most one worker is between acquire and release of the task
\* lock, and a worker whose acquire failed stays on the rejection path for ever.
C2_SingleFlight ==
    /\ [](\A tab \in Tabs :
            Cardinality({w \in Workers : wtab[w] = tab /\ pc[w] \in SectionPcs}) <= 1)
    /\ [][\A w \in Workers : pc[w] \in RejectedPcs => pc'[w] \in RejectedPcs]_vars

\* C2 witness: one worker is in the symbol loop while another worker of the same
\* class has been turned away.
C2_Witness ==
    \E w1, w2 \in Workers :
        /\ pc[w1] = "classify" /\ pc[w2] = "rej_message"
        /\ wtab[w1] = wtab[w2]

\* C3: the status a status query reports only moves idle -> running,
\* running -> completed, running -> error, or back to idle by a start request that
\* arrives while no worker of the class is running.
C3_StatusTransitions ==
    [][\A tab \in Tabs :
          LET old == status(tab).status
              new == status(tab)'.status
          IN old # new =>
                \/ old = "idle" /\ new = "running"
                \/ old = "running" /\ new \in {"completed", "error"}
                \/ new = "idle" /\ STATE_'[tab] # STATE_[tab] /\ ~TASK_LOCKS[tab]]_vars

\* C4: a job started with an unregistered mode name never sets status running and
\* never resolves the symbol universe.
C4_InvalidModeNeverRuns ==
    \A w \in Workers :
        pc[w] \in (BoundPcs \ {"update"}) => wmode[w] \in ModeNames

\* C36: a job whose mode name is not registered never ends (the lock about to be
\* released) with status completed in its dict, whatever the size of the universe.
C36_UnregisteredNeverCompletes ==
    \A w \in Workers :
        (pc[w] = "release" /\ wmode[w] \notin ModeNames) =>
            heap[state[w]].status # "completed"

\* C5: when the universe call raised, the job ends (the handler has run, the lock is
\* about to be released) with status error, the failure text as message, no
\* results, progress 0 and no symbol processed.
C5_UniverseFailure ==
    \A w \in Workers :
        (pc[w] = "release" /\ exc[w] = "universe") =>
            /\ status(wtab[w]).status = "error"
            /\ status(wtab[w]).message = Msg("universe", 0)
            /\ status(wtab[w]).results = <<>>
            /\ status(wtab[w]).progress = 0
            /\ status(wtab[w]).stats = ZeroStats
            /\ idx[w] = 0

\* C6: a symbol whose fetch found no data adds exactly 1 to stats.failed and nothing
\* to results, success or matched, and the loop goes on with the next symbol; a job
\* is only ever aborted before its first symbol is classified, so all the other
\* symbols of the universe are processed too.
C6_NoDataCountsOnce ==
    /\ [][\A w \in Workers :
            (pc[w] = "classify" /\ ret[w] = "no_data" /\ pc'[w] # "classify") =>
                /\ heap'[state[w]].stats.failed = heap[state[w]].stats.failed + 1
                /\ heap'[state[w]].stats.success = heap[state[w]].stats.success
                /\ heap'[state[w]].stats.matched = heap[state[w]].stats.matched
                /\ heap'[state[w]].results = heap[state[w]].results
                /\ pc'[w] = "sleep"]_vars
    /\ [][\A w \in Workers :
            (pc[w] = "sleep" /\ pc'[w] # "sleep") =>
                /\ idx'[w] = idx[w] + 1
                /\ pc'[w] = IF idx'[w] < stocks[w] THEN "progress" ELSE "sort"]_vars
    /\ [](\A w \in Workers :
            /\ pc[w] \in ExceptPcs => idx[w] = 0 /\ heap[state[w]].stats = ZeroStats
            /\ pc[w] = "sort" =>
                  /\ idx[w] = stocks[w]
                  /\ heap[state[w]].stats.success + heap[state[w]].stats.failed
                        = stocks[w])

\* C6 witness: in a universe of MaxStocks symbols the first symbol was counted as
\* failed and the last one has just come back without data.
C6_Witness ==
    \E w \in Workers :
        /\ pc[w] = "classify" /\ ret[w] = "no_data"
        /\ stocks[w] = MaxStocks /\ idx[w] = MaxStocks - 1
        /\ heap[state[w]].stats.failed >= 1

\* C7: the only exception that reaches the job-level handler (status error, loop
\* left) is a failure of the universe call; nothing raised while a symbol is
\* processed gets there.
C7_PerSymbolExceptionsContained ==
    \A w \in Workers : pc[w] \in ExceptPcs => exc[w] = "universe"

\* C12: at most one provider call (universe, index history, price history,
\* fundamentals) is in flight at any time, whatever the interleaving of the tab1
\* worker and the tab2 worker.
InCallPcs == {"market_in", "universe_in", "fetch_in"}

C12_OneProviderCall ==
    Cardinality({w \in Workers : pc[w] \in InCallPcs}) <= 1

\* C12 witness: the tab1 worker is inside a price-history call while the tab2
\* worker stands before a provider call of its own.
C12_Witness ==
    \E w1, w2 \in Workers :
        /\ wtab[w1] = "tab1" /\ pc[w1] = "fetch_in"
        /\ wtab[w2] = "tab2" /\ pc[w2] \in {"market", "universe", "screen"}

\* C13: in every snapshot a status query can read, stats.matched equals the number
\* of entries of results, and matched <= success.
C13_NoTornSnapshot ==
    \A tab \in Tabs :
        /\ status(tab).stats.matched = Len(status(tab).results)
        /\ status(tab).stats.matched <= status(tab).stats.success

\* C14: whenever the worker stands between two symbols, k of them finished, its
\* job state has success + failed = k, matched = len(results) and matched <=
\* success; and a job state whose status is completed has
\* success + failed = total = progress.
BetweenSymbolsPcs == {"progress", "screen", "fetch_in", "classify", "sort"}

C14_ExactlyOneClass ==
    /\ \A w \in Workers :
          pc[w] \in BetweenSymbolsPcs =>
              LET js == heap[state[w]]
              IN /\ js.stats.success + js.stats.failed = idx[w]
                 /\ js.stats.matched = Len(js.results)
                 /\ js.stats.matched <= js.stats.success
    /\ \A d \in DictIds :
          heap[d].status = "completed" =>
              /\ heap[d].stats.success + heap[d].stats.failed = heap[d].total
              /\ heap[d].total = heap[d].progress

\* C14 witness: a job of MaxStocks symbols is completed with a match, a failure
\* or both among them.
C14_Witness ==
    \E tab \in Tabs :
        /\ status(tab).status = "completed"
        /\ status(tab).total = MaxStocks
        /\ status(tab).stats.matched >= 1
        /\ status(tab).stats.success + status(tab).stats.failed = MaxStocks

\* C23: a start request that arrives while a job of the class is running is not
\* fatal to that job: when a worker has been turned away and the accepted worker
\* has gone through its loop and written its last message, the status query
\* reports the dict of that job, with status completed, the job's ranked results
\* and its final stats.
C23_BusyStartNotFatal ==
    \A w \in Workers :
        (pc[w] = "release" /\ exc[w] = "none" /\ \E v \in Workers : pc[v] = "rejected") =>
            /\ STATE_[wtab[w]] = state[w]
            /\ status(wtab[w]).status = "completed"
            /\ status(wtab[w]).results = heap[state[w]].results
            /\ status(wtab[w]).stats = heap[state[w]].stats

StepClass(w) == IF pc[w] = "unborn" THEN wtab'[w] ELSE wtab[w]

\* a step leaves the other class alone: its binding in STATE, the dict bound
\* there and its task lock
OtherClassUntouched(tab) ==
    \A o \in Tabs \ {tab} :
        /\ STATE_'[o] = STATE_[o]
        /\ heap'[STATE_[o]] = heap[STATE_[o]]
        /\ TASK_LOCKS'[o] = TASK_LOCKS[o]

RankedFor(tab, results) ==
    \A i, j \in 1..Len(results) :
        i < j => IF tab = "tab1" THEN results[i].key <= results[j].key
                 ELSE results[i].key >= results[j].key

\* C26: whenever a status query sees status completed, the results it sees are
\* sorted by the class key and the message reports exactly len(results) matches,
\* which equals stats.matched.
C26_CompletedIsFinal ==
    \A tab \in Tabs :
        status(tab).status = "completed" =>
            /\ RankedFor(tab, status(tab).results)
            /\ status(tab).message = Msg("done", Len(status(tab).results))
            /\ status(tab).stats.matched = Len(status(tab).results)

InOrder(tab, a, b) == IF tab = "tab1" THEN a.key <= b.key ELSE a.key >= b.key

\* C11: the ranked list is a permutation of the results, ordered by the key of the
\* class (ascending in tab1, descending in tab2), and results of equal key keep
\* their discovery order, in both directions.
C11_StableRanking ==
    rank_out.done =>
        \A tab \in Tabs :
            LET r == rank_out[tab]
            IN /\ Len(r) = Len(rank_in)
               /\ \A i \in 1..Len(rank_in) : \E j \in 1..Len(r) : r[j] = rank_in[i]
               /\ \A i, j \in 1..Len(r) : i < j => InOrder(tab, r[i], r[j])
               /\ \A i, j \in 1..Len(r) :
                     (i < j /\ r[i].key = r[j].key) => r[i].sym < r[j].sym

\* C11 witness: a list with two results of equal key that both sorts have to
\* reorder.
C11_Witness ==
    /\ rank_out.done
    /\ \E i, j \in 1..Len(rank_in) : i < j /\ rank_in[i].key = rank_in[j].key
    /\ rank_out.tab1 # rank_in /\ rank_out.tab2 # rank_in

\* C35: whenever at least one symbol passes, run_screener of
\* stock_screener_monthly_macd.py returns without raising, with at most top_n
\* rows in ascending order of the proximity that screen_single_stock put into
\* each record.
C35_RunScreenerReturnsSorted ==
    (rank_out.done /\ rank_in # <<>>) =>
        LET r == rank_out.monthly
        IN /\ r.raised = "none"
           /\ Len(r.rows) <= top_n
           /\ Len(r.rows) >= 1
           /\ \A i, j \in 1..Len(r.rows) : i < j => r.rows[i].key <= r.rows[j].key

(* ==================== properties of the screening chain =================== *)
\* the predicates of the technical chain, in the order the claim gives them,
\* stated on the frame: TRUE when the predicate fails
Fails(k, i) ==
    LET m == TAB1_MODES[i.mode]
        peak == IF i.peak_prev >= i.dea THEN i.peak_prev ELSE i.dea
    IN CASE k = 1 -> i.bars < 100
         [] k = 2 -> i.ma_nan
         [] k = 3 -> (i.close - i.ma55) * 100 < m.ma_min * i.ma55
         [] k = 4 -> (i.close - i.ma55) * 100 >= m.ma_max * i.ma55
         [] k = 5 -> ~(peak > m.history_dea)
         [] k = 6 -> ~(i.dea * 10 < m.pullback * peak)
         [] k = 7 -> ~(m.dea_min < i.dea /\ i.dea < m.dea_max)
         [] k = 8 -> i.golden_only /\ ~(i.dif > i.dea)

FailingPredicates(i) == {k \in 1..8 : Fails(k, i)}

FirstFailing(i) ==
    CHOOSE k \in FailingPredicates(i) : \A j \in FailingPredicates(i) : k <= j

WebReason ==
    <<"no_data", "no_ma", "below_ma", "too_far", "low_history", "no_pullback",
      "dea_range", "no_golden">>

Tab1Reason ==
    <<"no_data", "no_ma", "ma_filter", "ma_filter", "dea_filter", "dea_filter",
      "dea_range", "no_golden">>

\* C8: when some predicate of the chain fails, both screen functions return the
\* reason code of the first failing one in the order insufficient data, undefined
\* MA, deviation below, deviation at or above, peak too low, no pullback, DEA
\* outside the band, no confirmed cross, whatever later predicates fail too.
C8_FirstFailingReason ==
    (out # NoOut /\ FailingPredicates(inp) # {}) =>
        /\ out.tab1.status = Tab1Reason[FirstFailing(inp)]
        /\ out.web.status = WebReason[FirstFailing(inp)]

\* C8 witness: the zero-axis band fails together with the pullback and the
\* cross test, and the pullback, which comes first, is reported.
C8_Witness ==
    /\ out # NoOut
    /\ FailingPredicates(inp) = {6, 7, 8}
    /\ out.tab1.status = "dea_filter" /\ out.web.status = "no_pullback"

\* the reason code of the unified screener for a reason code of the web screener
Coarsen(code) ==
    CASE code \in {"below_ma", "too_far"} -> "ma_filter"
      [] code \in {"low_history", "no_pullback"} -> "dea_filter"
      [] OTHER -> code

C40_ReportedPullbackAboveBound ==
    out.tab1.status = "matched" =>
        /\ out.tab1.row.history_dea > 0
        /\ out.tab1.row.pullback > (10 - TAB1_MODES[inp.mode].pullback) * 100

\* C40, amended: a matched result of screen_stock_tab1 has a peak above zero, so
\* 1 - DEA / peak divides by a positive number; (1 - DEA / peak) * 100 is strictly
\* greater than (1 - pullback) * 100, and the percentage in the result, which is
\* rounded to one decimal, is at least (1 - pullback) * 100.
C40_PullbackAboveBound ==
    out.tab1.status = "matched" =>
        LET m == TAB1_MODES[inp.mode]
            peak == out.tab1.row.history_dea
        IN /\ peak > 0
           /\ (peak - inp.dea) * 10 > (10 - m.pullback) * peak
           /\ out.tab1.row.pullback >= (10 - m.pullback) * 100

\* C40 witness: a match whose DEA is just under pullback * peak, so that the
\* rounded percentage of the result is (1 - pullback) * 100 itself.
C40_Witness ==
    /\ out.tab1.status = "matched"
    /\ inp.dea * 10 < TAB1_MODES[inp.mode].pullback * out.tab1.row.history_dea
    /\ out.tab1.row.pullback = (10 - TAB1_MODES[inp.mode].pullback) * 100

\* C9: screen_stock_tab1 matches exactly when the series has 100 bars, MA55 is
\* defined, ma_min <= deviation < ma_max, peak > history_dea, DEA < pullback * peak,
\* dea_min < DEA < dea_max, and DIF > DEA if golden_only; a deviation equal to
\* ma_max, a peak equal to history_dea, a DEA equal to pullback * peak, to dea_min
\* or to dea_max rejects.
C9_MatchedIff ==
    out # NoOut =>
        LET m == TAB1_MODES[inp.mode]
            dev100 == (inp.close - inp.ma55) * 100
            peak == IF inp.peak_prev >= inp.dea THEN inp.peak_prev ELSE inp.dea
            matched == out.tab1.status = "matched"
        IN /\ matched <=>
                /\ inp.bars >= 100
                /\ ~inp.ma_nan
                /\ m.ma_min * inp.ma55 <= dev100 /\ dev100 < m.ma_max * inp.ma55
                /\ peak > m.history_dea
                /\ inp.dea * 10 < m.pullback * peak
                /\ m.dea_min < inp.dea /\ inp.dea < m.dea_max
                /\ inp.golden_only => inp.dif > inp.dea
           /\ dev100 = m.ma_max * inp.ma55 => ~matched
           /\ peak = m.history_dea => ~matched
           /\ inp.dea * 10 = m.pullback * peak => ~matched
           /\ inp.dea = m.dea_min => ~matched
           /\ inp.dea = m.dea_max => ~matched

\* C9 witness: a result is matched with the deviation exactly at ma_min.
C9_Witness ==
    /\ out.tab1.status = "matched"
    /\ (inp.close - inp.ma55) * 100 = TAB1_MODES[inp.mode].ma_min * inp.ma55

\* C10: with the flag off the cross step rejects nothing (a frame that passes the
\* seven predicates before it is matched); with the flag on every match is labelled
\* golden cross; and the label of a match is golden cross iff DIF > DEA, else
\* contracting decline iff the histogram is above the previous bar's and negative,
\* else pending cross.
C10_CrossState ==
    out # NoOut =>
        \A r \in {out.tab1, out.web} :
            /\ ~inp.golden_only =>
                  /\ r.status # "no_golden"
                  /\ FailingPredicates(inp) \cap (1..7) = {} => r.status = "matched"
            /\ (inp.golden_only /\ r.status = "matched") => r.signal = "golden_cross"
            /\ r.status = "matched" =>
                  /\ r.signal = "golden_cross" <=> inp.dif > inp.dea
                  /\ r.signal = "green_shrink" <=>
                        /\ ~(inp.dif > inp.dea)
                        /\ inp.macd > inp.prev_macd /\ inp.macd < 0
                  /\ r.signal = "pending_cross" <=>
                        /\ ~(inp.dif > inp.dea)
                        /\ ~(inp.macd > inp.prev_macd /\ inp.macd < 0)
                  /\ r.signal \in {"golden_cross", "green_shrink", "pending_cross"}

\* C10 witness: with the flag off a frame without a golden cross is matched and
\* labelled contracting decline by both functions.
C10_Witness ==
    /\ ~inp.golden_only
    /\ out.tab1.status = "matched" /\ out.tab1.signal = "green_shrink"
    /\ out.web.status = "matched" /\ out.web.signal = "green_shrink"

(* =================== properties of the fundamental chain ================== *)
\* the steps of the fundamental chain in order, stated on the answers: TRUE when the
\* step fails. Step 1 is the missing fundamentals, which each function decides in
\* its own way (three attempts, or one)
FundFails(k, i, missing) ==
    LET m == TAB2_MODES[i.mode]
    IN CASE k = 1 -> missing
         [] k = 2 -> i.pb_none \/ ~(m.pb_min < i.pb /\ i.pb < m.pb_max)
         [] k = 3 -> i.market_cap < m.market_cap_min
         [] k = 4 -> i.beta_none \/ i.beta >= m.beta_max
         [] k = 5 -> i.months < 50

FundReason ==
    <<"no_fundamental", "pb_filter", "market_cap_filter", "beta_filter",
      "no_monthly_data">>

\* what the chain of the first n steps decides: the reason of the first failing
\* step, or matched with the label derived from DIF and DEA
FundChain(n, i, missing) ==
    LET failing == {k \in 1..n : FundFails(k, i, missing)}
    IN IF failing = {}
       THEN [status |-> "matched",
             signal |-> IF i.dif > i.dea THEN "golden_cross" ELSE "pending_cross"]
       ELSE [status |-> FundReason[CHOOSE k \in failing : \A j \in failing : k <= j],
             signal |-> "none"]

\* C33: when screen_stock_tab2 gives a symbol up because a provider had nothing for
\* it (no fundamentals after the three attempts, no beta from calculate_beta, a
\* monthly frame that is missing or shorter than 50 bars), the status code it
\* returns is one that run_task_tab2 counts in stats.failed, not in stats.success.
C33_UnavailableCountsFailed ==
    LET m == TAB2_MODES[inp.mode]
        fundamentals == \E k \in 1..3 : inp.attempts[k] = "ok"
        sized == /\ fundamentals
                 /\ ~inp.pb_none /\ m.pb_min < inp.pb /\ inp.pb < m.pb_max
                 /\ inp.market_cap >= m.market_cap_min
        unavailable == \/ ~fundamentals
                       \/ sized /\ inp.beta_none
                       \/ sized /\ ~inp.beta_none /\ inp.beta < m.beta_max
                                /\ inp.months < 50
    IN (out # NoOut /\ unavailable) =>
           /\ out.tab2.status # "matched"
           /\ out.tab2.status \in FailedCodes("tab2")

\* result r has the status code and the label of chain
Decides(r, chain) == r.status = chain.status /\ r.signal = chain.signal

\* C34: a result of the standalone fundamental screener reports an ROA above the
\* roa_min of the mode it was screened in.
C34_RoaAboveFloor ==
    (out # NoOut /\ out.standalone.status = "matched") =>
        out.standalone.roa > FUNDAMENTAL_MODES[inp.mode].roa_min

\* C21 as stated: both functions decide by the four steps missing fundamentals,
\* price-to-book missing or outside pb_min < PB < pb_max, capitalisation below the
\* floor, beta missing or at or above the ceiling; the first failing step gives the
\* reason code and a symbol that passes all four is matched with the label derived
\* from DIF and DEA.
C21_FourStepChain ==
    out # NoOut =>
        /\ Decides(out.tab2, FundChain(4, inp, \A k \in 1..3 : inp.attempts[k] # "ok"))
        /\ Decides(out.standalone, FundChain(4, inp, inp.attempts[1] # "ok"))

\* C21 amended: the chain has a fifth step after the four: a monthly series that is
\* missing or shorter than 50 bars rejects with no_monthly_data. The first failing
\* step of the five gives the reason code, and a symbol that passes all five is
\* matched, labelled golden cross iff DIF > DEA and pending cross otherwise.
C21_FiveStepChain ==
    out # NoOut =>
        /\ Decides(out.tab2, FundChain(5, inp, \A k \in 1..3 : inp.attempts[k] # "ok"))
        /\ Decides(out.standalone, FundChain(5, inp, inp.attempts[1] # "ok"))

\* C21 witness: answers whose price-to-book is inside the band while the size, the
\* beta and the monthly series all fail: the size floor, which comes first, is
\* reported by both functions.
C21_Witness ==
    /\ out # NoOut
    /\ {k \in 1..5 : FundFails(k, inp, inp.attempts[1] # "ok")} = {3, 4, 5}
    /\ out.tab2.status = "market_cap_filter"
    /\ out.standalone.status = "market_cap_filter"

====
